---- MODULE Spec2Model ----
(***************************************************************************)
(* Sprint planning simulator: the feature stage machine (src/src/          *)
(* feature.py), the role capabilities (src/src/employee.py), the           *)
(* assignment strategy (src/src/strategy.py), the pre-flight validator     *)
(* (src/src/validator.py) and the tick loop (src/src/simulator.py).        *)
(*                                                                         *)
(* Efforts are floats in the source.  Here every effort is an integer      *)
(* number of thousandths (1.0 is 1000), so that a per-hour productivity    *)
(* below the two-decimal grid of Feature.work is representable.  The       *)
(* productivities and capacities drawn below never produce an exact        *)
(* rounding tie, so round(x, 2) is the nearest multiple of 10.             *)
(* Workers are identified by their name, which is unique in a team.        *)
(***************************************************************************)
EXTENDS Integers, Sequences, FiniteSets, TLC

VARIABLES
    feat,           \* feature name -> Feature object
    emp,            \* worker name  -> Employee object
    employees,      \* SprintSimulator.employees (list of worker names)
    features,       \* SprintSimulator.features  (active list of feature names)
    history,        \* SprintHistory._history
    cfg,            \* the arguments the caller built the run from
    pc,             \* position of the control thread
    max_days,       \* argument of run
    day,            \* loop variable of run
    hour,           \* loop variable of run
    idx,            \* position of the employee loop of _process_tick
    outcome,        \* how construction / run ended
    ret,            \* the last value returned by a method a caller reads
    registered      \* <<feature, worker>> pairs passed to register_development_contributor

vars == <<feat, emp, employees, features, history, cfg, pc, max_days, day, hour,
          idx, outcome, ret, registered>>

----------------------------------------------------------------------------
(* config.py *)

HOURS_PER_DAY == 8

REVIEW_COEFFICIENT == 200

----------------------------------------------------------------------------
(* Bounds of the model *)

MaxDays == 2

----------------------------------------------------------------------------
(* Helpers *)

Range(s) == {s[k] : k \in 1..Len(s)}

Max(a, b) == IF a >= b THEN a ELSE b

\* round(x, 2) on thousandths, and round(x * c, 2) on millionths: the nearest
\* multiple of unit, an exact tie going to the even multiple.
RoundToUnit(x, unit) ==
    LET q == x \div unit
        r == x % unit
    IN  IF 2 * r < unit THEN q * unit
        ELSE IF 2 * r > unit THEN (q + 1) * unit
        ELSE IF q % 2 = 0 THEN q * unit ELSE (q + 1) * unit

----------------------------------------------------------------------------
(* feature.py: FeatureStage and Feature *)

ANALYTICS == "analytics"
DEVELOPMENT == "development"
CODE_REVIEW == "code_review"
TESTING == "testing"

FeatureStage == {ANALYTICS, DEVELOPMENT, CODE_REVIEW, TESTING}

STAGE_ORDER == <<ANALYTICS, DEVELOPMENT, CODE_REVIEW, TESTING>>

StageIndex(stage) == CHOOSE k \in 1..Len(STAGE_ORDER) : STAGE_ORDER[k] = stage

NoCoefficient == -1

\* self._review_coefficient = review_coefficient or REVIEW_COEFFICIENT
EffectiveCoefficient(review_coefficient) ==
    IF review_coefficient = NoCoefficient \/ review_coefficient = 0
    THEN REVIEW_COEFFICIENT
    ELSE review_coefficient

\* a variant that derives Review also when the caller supplied one
calculate_stage_capacities_Overwrites(stage_capacities, coefficient) ==
    IF DEVELOPMENT \in DOMAIN stage_capacities
    THEN [s \in (DOMAIN stage_capacities) \cup {CODE_REVIEW} |->
            IF s = CODE_REVIEW
            THEN RoundToUnit(stage_capacities[DEVELOPMENT] * coefficient, 10000) \div 1000
            ELSE stage_capacities[s]]
    ELSE stage_capacities

calculate_stage_capacities(stage_capacities, coefficient) ==
    IF DEVELOPMENT \in DOMAIN stage_capacities /\ CODE_REVIEW \notin DOMAIN stage_capacities
    THEN [s \in (DOMAIN stage_capacities) \cup {CODE_REVIEW} |->
            IF s = CODE_REVIEW
            THEN RoundToUnit(stage_capacities[DEVELOPMENT] * coefficient, 10000) \div 1000
            ELSE stage_capacities[s]]
    ELSE stage_capacities

\* a variant that tests the initial stage against the supplied capacities
InitialStageValid_BeforeExpansion(stage_capacities, initial_stage, review_coefficient) ==
    initial_stage \in DOMAIN stage_capacities

\* Feature.__init__: if initial_stage not in self._stage_capacities: raise ValueError
InitialStageValid(stage_capacities, initial_stage, review_coefficient) ==
    initial_stage \in DOMAIN calculate_stage_capacities(
                            stage_capacities, EffectiveCoefficient(review_coefficient))

\* Feature.__init__ for an initial stage that is a key of the expanded capacities
FeatureNew(name, stage_capacities, initial_stage, review_coefficient) ==
    LET caps == calculate_stage_capacities(stage_capacities,
                                           EffectiveCoefficient(review_coefficient))
    IN  [name |-> name,
         review_coefficient |-> EffectiveCoefficient(review_coefficient),
         stage_capacities |-> caps,
         remaining |-> caps,
         current_stage |-> initial_stage,
         assignees |-> <<>>,
         contributors |-> {}]

\* a variant that looks at the current stage only
is_done_CurrentStageOnly(f) == f.remaining[f.current_stage] <= 0

is_done(f) == \A s \in DOMAIN f.remaining : f.remaining[s] <= 0

has_code_review(f) ==
    /\ CODE_REVIEW \in DOMAIN f.stage_capacities
    /\ f.stage_capacities[CODE_REVIEW] > 0

total_capacity(f) ==
    LET RECURSIVE Sum(_)
        Sum(k) == IF k = 0 THEN 0
                  ELSE Sum(k - 1) + (IF STAGE_ORDER[k] \in DOMAIN f.stage_capacities
                                     THEN f.stage_capacities[STAGE_ORDER[k]] ELSE 0)
    IN  Sum(Len(STAGE_ORDER))

register_development_contributor(f, w) ==
    IF w \notin f.contributors
    THEN [f EXCEPT !.contributors = @ \cup {w}]
    ELSE f

\* a variant that appends without looking
assign_AlwaysAppends(f, w) == [f EXCEPT !.assignees = Append(@, w)]

assign(f, w) ==
    IF w \notin Range(f.assignees)
    THEN [f EXCEPT !.assignees = Append(@, w)]
    ELSE f

----------------------------------------------------------------------------
(* employee.py *)

Roles == {"Developer", "SystemAnalyst", "QA"}

\* a variant in which QA may review as well
effective_stages_QAReviews(role) ==
    CASE role = "Developer" -> {DEVELOPMENT, CODE_REVIEW}
      [] role = "SystemAnalyst" -> {ANALYTICS}
      [] role = "QA" -> {TESTING, CODE_REVIEW}

effective_stages(role) ==
    CASE role = "Developer" -> {DEVELOPMENT, CODE_REVIEW}
      [] role = "SystemAnalyst" -> {ANALYTICS}
      [] role = "QA" -> {TESTING}

can_work_stage(e, stage) == stage \in effective_stages(e.role)

EmployeeNew(name, role, productivity_per_day) ==
    [name |-> name,
     role |-> role,
     productivity_per_day |-> productivity_per_day,
     worked_this_tick |-> FALSE,
     current_task_name |-> "None"]

\* a variant that applies a whole day of work in one tick
productivity_per_hour_WholeDay(e) == e.productivity_per_day

productivity_per_hour(e) == e.productivity_per_day \div HOURS_PER_DAY

\* a variant that forgets to clear the worked flag
reset_tick_KeepsWorked(e) == [e EXCEPT !.current_task_name = "None"]

reset_tick(e) == [e EXCEPT !.worked_this_tick = FALSE, !.current_task_name = "None"]

idle(e) == [e EXCEPT !.current_task_name = "Idle"]

----------------------------------------------------------------------------
(* feature.py: eligibility, work, advancement *)

\* a variant that lets an assigned contributor review
can_be_worked_by_AssignedMayReview(f, e) ==
    IF is_done(f) THEN FALSE
    ELSE IF ~can_work_stage(e, f.current_stage) THEN FALSE
    ELSE IF f.current_stage = CODE_REVIEW
         THEN (IF e.name \in f.contributors /\ e.name \notin Range(f.assignees)
               THEN FALSE ELSE TRUE)
    ELSE IF e.name \notin Range(f.assignees) THEN FALSE
    ELSE TRUE

\* a variant without the external reviewer rule: every stage needs assignment
can_be_worked_by_ReviewNeedsAssignment(f, e) ==
    IF is_done(f) THEN FALSE
    ELSE IF ~can_work_stage(e, f.current_stage) THEN FALSE
    ELSE IF f.current_stage = CODE_REVIEW /\ e.name \in f.contributors THEN FALSE
    ELSE IF e.name \notin Range(f.assignees) THEN FALSE
    ELSE TRUE

\* a variant that asks for assignment at no stage
can_be_worked_by_NoAssignment(f, e) ==
    IF is_done(f) THEN FALSE
    ELSE IF ~can_work_stage(e, f.current_stage) THEN FALSE
    ELSE IF f.current_stage = CODE_REVIEW
         THEN (IF e.name \in f.contributors THEN FALSE ELSE TRUE)
    ELSE TRUE

can_be_worked_by(f, e) ==
    IF is_done(f) THEN FALSE
    ELSE IF ~can_work_stage(e, f.current_stage) THEN FALSE
    ELSE IF f.current_stage = CODE_REVIEW
         THEN (IF e.name \in f.contributors THEN FALSE ELSE TRUE)
    ELSE IF e.name \notin Range(f.assignees) THEN FALSE
    ELSE TRUE

\* a variant that subtracts without clamping at zero
Feature_work_Unclamped(f, effort) ==
    [f EXCEPT !.remaining[f.current_stage] =
        RoundToUnit(f.remaining[f.current_stage] - effort, 10)]

\* a variant that takes the effort off every stage
Feature_work_AllStages(f, effort) ==
    [f EXCEPT !.remaining = [s \in DOMAIN f.remaining |->
                                Max(0, RoundToUnit(f.remaining[s] - effort, 10))]]

Feature_work(f, effort) ==
    [f EXCEPT !.remaining[f.current_stage] =
        Max(0, RoundToUnit(f.remaining[f.current_stage] - effort, 10))]

Min(S) == CHOOSE k \in S : \A j \in S : k <= j

\* a variant that scans the whole order instead of the stages after the current one
LaterStages_WholeOrder(f) ==
    {k \in 1..Len(STAGE_ORDER) :
        STAGE_ORDER[k] \in DOMAIN f.remaining /\ STAGE_ORDER[k] # f.current_stage}

\* the stages after the current one that are keys of remaining
LaterStages(f) ==
    {k \in (StageIndex(f.current_stage) + 1)..Len(STAGE_ORDER) :
        STAGE_ORDER[k] \in DOMAIN f.remaining}

\* a variant that reports completion as soon as the current stage is finished
try_advance_ReportsOnAdvance(f) ==
    IF f.remaining[f.current_stage] > 0
    THEN [feature |-> f, result |-> FALSE]
    ELSE IF LaterStages(f) # {}
         THEN [feature |-> [f EXCEPT !.current_stage = STAGE_ORDER[Min(LaterStages(f))]],
               result |-> TRUE]
         ELSE [feature |-> f, result |-> TRUE]

\* a variant that passes over the later stages that have no effort left
try_advance_SkipsFinished(f) ==
    IF f.remaining[f.current_stage] > 0
    THEN [feature |-> f, result |-> FALSE]
    ELSE LET open == {k \in LaterStages(f) : f.remaining[STAGE_ORDER[k]] > 0}
         IN  IF open # {}
             THEN [feature |-> [f EXCEPT !.current_stage = STAGE_ORDER[Min(open)]],
                   result |-> FALSE]
             ELSE [feature |-> f, result |-> TRUE]

\* try_advance: the feature afterwards and the value returned
try_advance(f) ==
    IF f.remaining[f.current_stage] > 0
    THEN [feature |-> f, result |-> FALSE]
    ELSE IF LaterStages(f) # {}
         THEN [feature |-> [f EXCEPT !.current_stage = STAGE_ORDER[Min(LaterStages(f))]],
               result |-> FALSE]
         ELSE [feature |-> f, result |-> TRUE]

\* a variant that registers the worker whatever the current stage
Employee_work_feature_RegistersAlways(e, f) ==
    Feature_work(register_development_contributor(f, e.name), productivity_per_hour(e))

\* Employee.work: the feature afterwards
Employee_work_feature(e, f) ==
    Feature_work(IF f.current_stage = DEVELOPMENT
                 THEN register_development_contributor(f, e.name)
                 ELSE f,
                 productivity_per_hour(e))

\* Employee.work: the employee afterwards
Employee_work_self(e, f) ==
    [e EXCEPT !.worked_this_tick = TRUE, !.current_task_name = f.name]

----------------------------------------------------------------------------
(* strategy.py *)

NoFeature == "None"

\* a variant that keeps scanning and returns the last eligible feature
RECURSIVE FirstEligible_Last(_, _, _, _)
FirstEligible_Last(e, fs, fobj, k) ==
    IF k > Len(fs) THEN NoFeature
    ELSE IF FirstEligible_Last(e, fs, fobj, k + 1) # NoFeature
         THEN FirstEligible_Last(e, fs, fobj, k + 1)
    ELSE IF can_be_worked_by(fobj[fs[k]], e) THEN fs[k]
    ELSE NoFeature

\* SimpleAssignmentStrategy.choose_feature: fs is a list of feature names,
\* fobj the objects they name
RECURSIVE FirstEligible(_, _, _, _)
FirstEligible(e, fs, fobj, k) ==
    IF k > Len(fs) THEN NoFeature
    ELSE IF can_be_worked_by(fobj[fs[k]], e) THEN fs[k]
    ELSE FirstEligible(e, fs, fobj, k + 1)

Simple_choose_feature(e, fs, fobj) == FirstEligible(e, fs, fobj, 1)

\* sum(f.get_remaining_efforts().values())
total_remaining(f) ==
    LET RECURSIVE Sum(_)
        Sum(k) == IF k = 0 THEN 0
                  ELSE Sum(k - 1) + (IF STAGE_ORDER[k] \in DOMAIN f.remaining
                                     THEN f.remaining[STAGE_ORDER[k]] ELSE 0)
    IN  Sum(Len(STAGE_ORDER))

\* list.sort(key=...): a stable sort, ascending.  x goes behind every element
\* of the sorted list whose key is not larger than its own.
RECURSIVE InsertByKey(_, _, _)
InsertByKey(x, sorted, fobj) ==
    IF sorted = <<>> THEN <<x>>
    ELSE IF total_remaining(fobj[Head(sorted)]) <= total_remaining(fobj[x])
         THEN <<Head(sorted)>> \o InsertByKey(x, Tail(sorted), fobj)
         ELSE <<x>> \o sorted

RECURSIVE SortByRemaining(_, _)
SortByRemaining(fs, fobj) ==
    IF fs = <<>> THEN <<>>
    ELSE InsertByKey(fs[Len(fs)], SortByRemaining(SubSeq(fs, 1, Len(fs) - 1), fobj), fobj)

\* a variant that returns the first eligible feature without sorting
Priority_choose_feature_Unsorted(e, fs, fobj) ==
    LET eligible_features == SelectSeq(fs, LAMBDA n : can_be_worked_by(fobj[n], e))
    IN  IF eligible_features = <<>> THEN NoFeature
        ELSE Head(eligible_features)

\* PriorityBasedAssignmentStrategy.choose_feature with prioritize_completion
\* left at its default (True)
Priority_choose_feature(e, fs, fobj) ==
    LET eligible_features == SelectSeq(fs, LAMBDA n : can_be_worked_by(fobj[n], e))
    IN  IF eligible_features = <<>> THEN NoFeature
        ELSE Head(SortByRemaining(eligible_features, fobj))

----------------------------------------------------------------------------
(* validator.py *)

\* exceptions.py: the classes an error is an instance of
ErrorClasses(error) ==
    CASE error = "NoReviewerAvailableError" ->
            {"NoReviewerAvailableError", "PlanningError", "SimulatorError"}
      [] error = "PlanningError" -> {"PlanningError", "SimulatorError"}
      [] error = "ValueError" -> {"ValueError"}
      [] OTHER -> {}

NoError == [error |-> "None", check |-> "none", feature_name |-> "None",
            assigned_developers |-> {}, available_developers |-> <<>>]

PlanningError(check, feature_name) ==
    [error |-> "PlanningError", check |-> check, feature_name |-> feature_name,
     assigned_developers |-> {}, available_developers |-> <<>>]

NoReviewerAvailableError(feature_name, assigned_developers, available_developers) ==
    [error |-> "NoReviewerAvailableError", check |-> "review_coverage",
     feature_name |-> feature_name,
     assigned_developers |-> assigned_developers,
     available_developers |-> available_developers]

\* the first position of a list that satisfies a test, 0 when none does
FirstIndex(n, Test(_)) ==
    IF \E k \in 1..n : Test(k)
    THEN CHOOSE k \in 1..n : Test(k) /\ \A j \in 1..(k - 1) : ~Test(j)
    ELSE 0

validate_features(fs, fobj) ==
    IF fs = <<>> THEN PlanningError("no_features", "None")
    ELSE LET Bad(k) == fobj[fs[k]].assignees = <<>>
             k == FirstIndex(Len(fs), Bad)
         IN  IF k # 0 THEN PlanningError("no_assignees", fs[k]) ELSE NoError

\* a variant that accepts a productivity of zero
validate_employees_NegativeOnly(es, eobj) ==
    IF es = <<>> THEN PlanningError("no_employees", "None")
    ELSE LET Bad(k) == eobj[es[k]].productivity_per_day < 0
             k == FirstIndex(Len(es), Bad)
         IN  IF k # 0 THEN PlanningError("productivity", "None") ELSE NoError

validate_employees(es, eobj) ==
    IF es = <<>> THEN PlanningError("no_employees", "None")
    ELSE LET Bad(k) == eobj[es[k]].productivity_per_day <= 0
             k == FirstIndex(Len(es), Bad)
         IN  IF k # 0 THEN PlanningError("productivity", "None") ELSE NoError

\* team_developers = [e for e in employees if isinstance(e, Developer)]
team_developers(es, eobj) == SelectSeq(es, LAMBDA w : eobj[w].role = "Developer")

\* a variant that reads the development contributors instead of the assignees
assigned_dev_names_FromContributors(f, eobj) == f.contributors

\* a variant that reports every assignee, whatever the role
assigned_dev_names_AllAssignees(f, eobj) == {eobj[w].name : w \in Range(f.assignees)}

assigned_dev_names(f, eobj) ==
    {eobj[w].name : w \in {x \in Range(f.assignees) : eobj[x].role = "Developer"}}

\* a variant that counts every developer of the team as a reviewer
eligible_reviewers_AnyDeveloper(f, es, eobj) == team_developers(es, eobj)

eligible_reviewers(f, es, eobj) ==
    SelectSeq(team_developers(es, eobj),
              LAMBDA w : eobj[w].name \notin assigned_dev_names(f, eobj))

validate_code_review_coverage(fs, es, fobj, eobj) ==
    LET Bad(k) == /\ has_code_review(fobj[fs[k]])
                  /\ eligible_reviewers(fobj[fs[k]], es, eobj) = <<>>
        k == FirstIndex(Len(fs), Bad)
    IN  IF k # 0
        THEN NoReviewerAvailableError(fs[k], assigned_dev_names(fobj[fs[k]], eobj),
                                      team_developers(es, eobj))
        ELSE NoError

\* a variant that looks at the employees before the features' assignees
validate_EmployeesFirst(fs, es, fobj, eobj) ==
    IF fs = <<>> THEN PlanningError("no_features", "None")
    ELSE IF validate_employees(es, eobj) # NoError THEN validate_employees(es, eobj)
    ELSE IF validate_features(fs, fobj) # NoError THEN validate_features(fs, fobj)
    ELSE validate_code_review_coverage(fs, es, fobj, eobj)

\* SprintValidator.validate: the error raised, NoError when it returns True
validate(fs, es, fobj, eobj) ==
    IF validate_features(fs, fobj) # NoError THEN validate_features(fs, fobj)
    ELSE IF validate_employees(es, eobj) # NoError THEN validate_employees(es, eobj)
    ELSE validate_code_review_coverage(fs, es, fobj, eobj)

\* a variant that asks whether the employee is eligible for a current stage
has_work_EligibleNow(e, fs, fobj) ==
    \E k \in 1..Len(fs) : can_be_worked_by(fobj[fs[k]], e)

\* get_validation_warnings: the has_work flag of the employee loop
has_work(e, fs, fobj) ==
    \E k \in 1..Len(fs) :
        LET f == fobj[fs[k]]
        IN  \/ e.name \in Range(f.assignees)
            \/ \E i \in 1..Len(STAGE_ORDER) :
                  LET stage == STAGE_ORDER[i]
                  IN  /\ stage \in DOMAIN f.remaining
                      /\ can_work_stage(e, stage)
                      /\ stage = CODE_REVIEW => e.name \notin f.contributors

\* dev_count = sum(1 for e in feature.assignees if isinstance(e, Developer))
dev_count(f, eobj) ==
    Cardinality({i \in 1..Len(f.assignees) : eobj[f.assignees[i]].role = "Developer"})

Warning(kind, name) == [kind |-> kind, name |-> name]

\* get_validation_warnings: the list of warnings, the employees' first
get_validation_warnings(fs, es, fobj, eobj) ==
    LET unused == SelectSeq(es, LAMBDA w : ~has_work(eobj[w], fs, fobj))
        single == SelectSeq(fs, LAMBDA n : /\ has_code_review(fobj[n])
                                           /\ dev_count(fobj[n], eobj) = 1)
    IN  [k \in 1..Len(unused) |-> Warning("no_eligible_work", eobj[unused[k]].name)]
        \o [k \in 1..Len(single) |-> Warning("single_developer", fobj[single[k]].name)]

----------------------------------------------------------------------------
(* history.py *)

FeatureSnapshot(f) ==
    [name |-> f.name,
     current_stage |-> f.current_stage,
     remaining_efforts |-> f.remaining,
     total_capacity |-> total_capacity(f),
     is_done |-> is_done(f),
     development_contributors |-> f.contributors]

EmployeeSnapshot(e) ==
    [name |-> e.name,
     has_worked |-> e.worked_this_tick,
     current_task |-> e.current_task_name]

\* a variant that photographs the features after their advancement
TickSnapshot_AfterAdvance(d, h, fs, es, fobj, eobj) ==
    [tick |-> [day |-> d, hour |-> h],
     features |-> [k \in 1..Len(fs) |-> FeatureSnapshot(try_advance(fobj[fs[k]]).feature)],
     employees |-> [k \in 1..Len(es) |-> EmployeeSnapshot(eobj[es[k]])]]

\* a variant that leaves out the features about to be removed
TickSnapshot_ActiveOnly(d, h, fs, es, fobj, eobj) ==
    LET staying == SelectSeq(fs, LAMBDA n : ~try_advance(fobj[n]).result)
    IN  [tick |-> [day |-> d, hour |-> h],
         features |-> [k \in 1..Len(staying) |-> FeatureSnapshot(fobj[staying[k]])],
         employees |-> [k \in 1..Len(es) |-> EmployeeSnapshot(eobj[es[k]])]]

TickSnapshot(d, h, fs, es, fobj, eobj) ==
    [tick |-> [day |-> d, hour |-> h],
     features |-> [k \in 1..Len(fs) |-> FeatureSnapshot(fobj[fs[k]])],
     employees |-> [k \in 1..Len(es) |-> EmployeeSnapshot(eobj[es[k]])]]

----------------------------------------------------------------------------
(* The configurations a run is built from *)

Pool == {"Dev1", "Dev2", "QA1", "An1"}

RoleOf(w) ==
    CASE w \in {"Dev1", "Dev2"} -> "Developer"
      [] w = "QA1" -> "QA"
      [] w = "An1" -> "SystemAnalyst"

\* productivity_per_day of every worker, in thousandths
Productivities ==
    { [w \in Pool |-> 8000],
      [w \in Pool |-> IF w = "Dev2" THEN 0 ELSE 8000] }

Teams ==
    { <<>>,
      <<"Dev1">>,
      <<"Dev1", "Dev2">>,
      <<"Dev2", "Dev1">>,
      <<"Dev1", "Dev2", "QA1">>,
      <<"An1", "Dev1", "QA1", "Dev2">> }

\* stage_capacities and initial_stage as the caller supplies them
Templates ==
    { [caps |-> (DEVELOPMENT :> 1000), initial_stage |-> DEVELOPMENT],
      [caps |-> (ANALYTICS :> 1000) @@ (DEVELOPMENT :> 2000) @@ (TESTING :> 1000),
       initial_stage |-> ANALYTICS],
      [caps |-> (ANALYTICS :> 1000) @@ (DEVELOPMENT :> 0) @@ (TESTING :> 1000),
       initial_stage |-> ANALYTICS],
      [caps |-> (ANALYTICS :> 1000) @@ (DEVELOPMENT :> 2000) @@ (TESTING :> 1000),
       initial_stage |-> DEVELOPMENT],
      [caps |-> (TESTING :> 1000), initial_stage |-> TESTING] }

SecondTemplates ==
    { [caps |-> (DEVELOPMENT :> 1000), initial_stage |-> DEVELOPMENT] }

\* the assign calls made on the first feature before the run, in call order
Assignments ==
    { <<>>,
      <<"Dev1">>,
      <<"Dev1", "Dev2">>,
      <<"An1", "Dev1", "QA1">>,
      <<"QA1">> }

SecondAssignments ==
    { <<>>,
      <<"Dev1">>,
      <<"Dev1", "Dev2">> }

FeatureArgs(name, T, A) ==
    { [name |-> name, caps |-> t.caps, initial_stage |-> t.initial_stage,
       review_coefficient |-> NoCoefficient, assignees |-> a] : t \in T, a \in A }

FeatureLists ==
    {<<>>}
    \cup { <<a>> : a \in FeatureArgs("F1", Templates, Assignments) }
    \cup { <<a, b>> : a \in FeatureArgs("F1", Templates, Assignments),
                      b \in FeatureArgs("F2", SecondTemplates, SecondAssignments) }

\* one feature {Development: 10.0}, Dev1 assigned, Dev2 not, both 8.0 a day
ScenarioFeature ==
    [name |-> "F1", caps |-> (DEVELOPMENT :> 10000), initial_stage |-> DEVELOPMENT,
     review_coefficient |-> NoCoefficient, assignees |-> <<"Dev1">>]

ScenarioConfigs ==
    [team : {<<"Dev1", "Dev2">>, <<"Dev1">>}, prod : {[w \in Pool |-> 8000]},
     fspecs : {<<ScenarioFeature>>}, validate : BOOLEAN, strategy : {"simple"}]

\* an Analytics stage followed by a Development stage of effort 0, whose
\* derived Review effort is 0 as well
ZeroTailFeature ==
    [name |-> "F1", caps |-> (ANALYTICS :> 1000) @@ (DEVELOPMENT :> 0),
     initial_stage |-> ANALYTICS, review_coefficient |-> NoCoefficient,
     assignees |-> <<"An1", "Dev1">>]

ZeroTailConfigs ==
    [team : {<<"An1", "Dev1">>}, prod : {[w \in Pool |-> 8000]},
     fspecs : {<<ZeroTailFeature>>}, validate : BOOLEAN, strategy : {"simple"}]

\* two features run under PriorityBasedAssignmentStrategy
PriorityLists ==
    { <<a, b>> :
        a \in FeatureArgs("F1", Templates, {<<"Dev1", "Dev2">>, <<"An1", "Dev1", "QA1">>}),
        b \in FeatureArgs("F2", SecondTemplates, {<<"Dev1">>, <<"Dev1", "Dev2">>}) }

PriorityConfigs ==
    [team : {<<"Dev1", "Dev2">>, <<"An1", "Dev1", "QA1", "Dev2">>},
     prod : {[w \in Pool |-> 8000]}, fspecs : PriorityLists,
     validate : {FALSE}, strategy : {"priority"}]

\* a Development effort of 1.008 worked by a developer of 0.008 a day, that is
\* 0.001 an hour
FineFeature ==
    [name |-> "F1", caps |-> (DEVELOPMENT :> 1008), initial_stage |-> DEVELOPMENT,
     review_coefficient |-> NoCoefficient, assignees |-> <<"Dev1">>]

FineConfigs ==
    [team : {<<"Dev1", "Dev2">>}, prod : {[w \in Pool |-> 8]},
     fspecs : {<<FineFeature>>}, validate : BOOLEAN, strategy : {"simple"}]

Configs ==
    [team : Teams, prod : Productivities, fspecs : FeatureLists,
     validate : BOOLEAN, strategy : {"simple"}]
    \cup ScenarioConfigs
    \cup ZeroTailConfigs
    \cup PriorityConfigs
    \cup FineConfigs

RECURSIVE AssignAll(_, _, _)
AssignAll(f, ws, k) ==
    IF k > Len(ws) THEN f ELSE AssignAll(assign(f, ws[k]), ws, k + 1)

\* the Feature the caller builds from one entry of fspecs
BuildFeature(a) ==
    AssignAll(FeatureNew(a.name, a.caps, a.initial_stage, a.review_coefficient),
              a.assignees, 1)

FeatureNames(c) == [k \in 1..Len(c.fspecs) |-> c.fspecs[k].name]

BuildFeatures(c) ==
    [n \in Range(FeatureNames(c)) |->
        BuildFeature(c.fspecs[CHOOSE k \in 1..Len(c.fspecs) : c.fspecs[k].name = n])]

BuildEmployees(c) == [w \in Pool |-> EmployeeNew(w, RoleOf(w), c.prod[w])]

NoReturn == [op |-> "none", feature |-> "None", result |-> FALSE, before |-> <<>>]

----------------------------------------------------------------------------
(* simulator.py *)

Init ==
    /\ cfg \in Configs
    /\ feat = BuildFeatures(cfg)
    /\ emp = BuildEmployees(cfg)
    /\ employees = <<>>
    /\ features = <<>>
    /\ history = <<>>
    /\ pc = "new"
    /\ max_days = 0
    /\ day = 0
    /\ hour = 0
    /\ idx = 0
    /\ outcome = NoError
    /\ ret = NoReturn
    /\ registered = {}

\* SprintSimulator.__init__ when validation passes or is switched off
Construct ==
    /\ pc = "new"
    /\ ~cfg.validate \/ validate(FeatureNames(cfg), cfg.team, feat, emp) = NoError
    /\ employees' = cfg.team
    /\ features' = FeatureNames(cfg)
    /\ history' = <<>>
    /\ pc' = "ready"
    /\ UNCHANGED <<feat, emp, cfg, max_days, day, hour, idx, outcome, ret, registered>>

\* SprintSimulator.__init__ when validate raises: no simulator is returned
ConstructFails ==
    /\ pc = "new"
    /\ cfg.validate
    /\ validate(FeatureNames(cfg), cfg.team, feat, emp) # NoError
    /\ outcome' = validate(FeatureNames(cfg), cfg.team, feat, emp)
    /\ pc' = "error"
    /\ UNCHANGED <<feat, emp, employees, features, history, cfg, max_days, day, hour,
                   idx, ret, registered>>

\* a variant whose loop body runs before the bound is tested
HasFirstTick_Always(md) == TRUE

\* a variant that iterates one day too many
HasNextTick_ExtraDay(d, h, md) == h < HOURS_PER_DAY \/ d <= md

\* the day and hour loops of run: the ticks range(1, max_days + 1) x range(1, H + 1)
HasFirstTick(md) == md >= 1

HasNextTick(d, h, md) == h < HOURS_PER_DAY \/ d < md

\* run(max_days) up to the first tick: the warnings are computed and printed,
\* then the day loop is entered
Run(md) ==
    /\ pc = "ready"
    /\ max_days' = md
    /\ IF HasFirstTick(md)
       THEN /\ day' = 1
            /\ hour' = 1
            /\ pc' = "reset"
            /\ UNCHANGED outcome
       ELSE /\ pc' = "done"
            /\ outcome' = [NoError EXCEPT !.check = "max_days"]
            /\ UNCHANGED <<day, hour>>
    /\ ret' = [op |-> "get_validation_warnings",
               warnings |-> get_validation_warnings(features, employees, feat, emp)]
    /\ UNCHANGED <<feat, emp, employees, features, history, cfg, idx, registered>>

\* _process_tick: for employee in self.employees: employee.reset_tick()
ResetTick ==
    /\ pc = "reset"
    /\ emp' = [w \in DOMAIN emp |-> IF w \in Range(employees) THEN reset_tick(emp[w])
                                    ELSE emp[w]]
    /\ idx' = 1
    /\ pc' = IF employees = <<>> THEN "record" ELSE "assign"
    /\ UNCHANGED <<feat, employees, features, history, cfg, max_days, day, hour,
                   outcome, ret, registered>>

\* a variant whose choice also looks at the hour of the day
choose_feature_ByHour(e, fs, fobj) ==
    IF hour % 2 = 0 THEN FirstEligible_Last(e, fs, fobj, 1)
    ELSE Simple_choose_feature(e, fs, fobj)

\* self.assignment_strategy.choose_feature(employee, self.features)
choose_feature(e, fs, fobj) ==
    IF cfg.strategy = "priority" THEN Priority_choose_feature(e, fs, fobj)
    ELSE Simple_choose_feature(e, fs, fobj)

\* a variant whose priority strategy sorts the caller's list in place
features_after_choose_SortsInPlace(e, fs, fobj) ==
    IF cfg.strategy = "priority" THEN SortByRemaining(fs, fobj) ELSE fs

\* the caller's list when choose_feature returns: SimpleAssignmentStrategy only
\* iterates over it, PriorityBasedAssignmentStrategy sorts eligible_features, a
\* list of its own
features_after_choose(e, fs, fobj) == fs

\* a variant whose employee loop ends before the last employee
AfterEmployee_SkipsLast == IF idx >= Len(employees) - 1 THEN "record" ELSE "assign"

AfterEmployee == IF idx = Len(employees) THEN "record" ELSE "assign"

\* _process_tick: one round of the employee loop, the strategy finding a feature
AssignAndWork ==
    /\ pc = "assign"
    /\ LET w == employees[idx]
           f == choose_feature(emp[w], features, feat)
       IN  /\ f # NoFeature
           /\ feat' = [feat EXCEPT ![f] = Employee_work_feature(emp[w], feat[f])]
           /\ emp' = [emp EXCEPT ![w] = Employee_work_self(emp[w], feat[f])]
           /\ registered' = IF feat[f].current_stage = DEVELOPMENT
                            THEN registered \cup {<<f, w>>}
                            ELSE registered
    /\ features' = features_after_choose(emp[employees[idx]], features, feat)
    /\ idx' = idx + 1
    /\ pc' = AfterEmployee
    /\ UNCHANGED <<employees, history, cfg, max_days, day, hour, outcome, ret>>

\* _process_tick: one round of the employee loop, the strategy finding nothing
AssignAndIdle ==
    /\ pc = "assign"
    /\ LET w == employees[idx]
       IN  /\ choose_feature(emp[w], features, feat) = NoFeature
           /\ emp' = [emp EXCEPT ![w] = idle(emp[w])]
    /\ features' = features_after_choose(emp[employees[idx]], features, feat)
    /\ idx' = idx + 1
    /\ pc' = AfterEmployee
    /\ UNCHANGED <<feat, employees, history, cfg, max_days, day, hour, outcome, ret,
                   registered>>

\* a variant that puts the new snapshot in front of the list
Record_Prepends ==
    /\ pc = "record"
    /\ history' = <<TickSnapshot(day, hour, features, employees, feat, emp)>> \o history
    /\ pc' = "advance"
    /\ UNCHANGED <<feat, emp, employees, features, cfg, max_days, day, hour, idx,
                   outcome, ret, registered>>

\* _process_tick: self.history.record(tick, self.features, self.employees)
Record ==
    /\ pc = "record"
    /\ history' = Append(history, TickSnapshot(day, hour, features, employees, feat, emp))
    /\ pc' = "advance"
    /\ UNCHANGED <<feat, emp, employees, features, cfg, max_days, day, hour, idx,
                   outcome, ret, registered>>

\* _advance_features: try_advance on every active feature, then the removals
AdvanceFeatures ==
    /\ pc = "advance"
    /\ feat' = [n \in DOMAIN feat |-> IF n \in Range(features)
                                      THEN try_advance(feat[n]).feature
                                      ELSE feat[n]]
    /\ features' = SelectSeq(features, LAMBDA n : ~try_advance(feat[n]).result)
    /\ pc' = "check"
    /\ UNCHANGED <<emp, employees, history, cfg, max_days, day, hour, idx, outcome,
                   ret, registered>>

\* a variant that tests for completion at the end of a day only
RunStopsEarly_AtDayEnd(fs) == fs = <<>> /\ hour = HOURS_PER_DAY

\* run: if not self.features: return
RunStopsEarly(fs) == fs = <<>>

FinishEarly ==
    /\ pc = "check"
    /\ RunStopsEarly(features)
    /\ pc' = "done"
    /\ outcome' = [NoError EXCEPT !.check = "completed_early"]
    /\ UNCHANGED <<feat, emp, employees, features, history, cfg, max_days, day, hour,
                   idx, ret, registered>>

\* run: the next iteration of the hour loop or of the day loop
NextTick ==
    /\ pc = "check"
    /\ ~RunStopsEarly(features)
    /\ HasNextTick(day, hour, max_days)
    /\ IF hour < HOURS_PER_DAY
       THEN hour' = hour + 1 /\ day' = day
       ELSE hour' = 1 /\ day' = day + 1
    /\ pc' = "reset"
    /\ UNCHANGED <<feat, emp, employees, features, history, cfg, max_days, idx,
                   outcome, ret, registered>>

\* run: the day loop is exhausted
MaxDaysReached ==
    /\ pc = "check"
    /\ ~RunStopsEarly(features)
    /\ ~HasNextTick(day, hour, max_days)
    /\ pc' = "done"
    /\ outcome' = [NoError EXCEPT !.check = "max_days"]
    /\ UNCHANGED <<feat, emp, employees, features, history, cfg, max_days, day, hour,
                   idx, ret, registered>>

Next ==
    \/ Construct
    \/ ConstructFails
    \/ \E md \in 0..MaxDays : Run(md)
    \/ ResetTick
    \/ AssignAndWork
    \/ AssignAndIdle
    \/ Record
    \/ AdvanceFeatures
    \/ FinishEarly
    \/ NextTick
    \/ MaxDaysReached

Spec == Init /\ [][Next]_vars

----------------------------------------------------------------------------
(* simulator.py, once more: a run executed as a function of its configuration *)

\* the objects of a simulator right after construction
RunStart(c) ==
    [feat |-> BuildFeatures(c), emp |-> BuildEmployees(c),
     employees |-> c.team, features |-> FeatureNames(c), history |-> <<>>]

\* for employee in self.employees: employee.reset_tick()
RunReset(st) ==
    [st EXCEPT !.emp = [w \in DOMAIN st.emp |->
                           IF w \in Range(st.employees) THEN reset_tick(st.emp[w])
                           ELSE st.emp[w]]]

\* the strategy named by the configuration
StrategyChoice(c, e, fs, fobj) ==
    IF c.strategy = "priority" THEN Priority_choose_feature(e, fs, fobj)
    ELSE Simple_choose_feature(e, fs, fobj)

\* the employee loop of _process_tick up to and including position j
RECURSIVE RunAssign(_, _, _)
RunAssign(c, st, j) ==
    IF j = 0 THEN st
    ELSE LET s == RunAssign(c, st, j - 1)
             w == s.employees[j]
             f == StrategyChoice(c, s.emp[w], s.features, s.feat)
             left == features_after_choose(s.emp[w], s.features, s.feat)
         IN  IF f # NoFeature
             THEN [s EXCEPT !.feat[f] = Employee_work_feature(s.emp[w], s.feat[f]),
                            !.emp[w] = Employee_work_self(s.emp[w], s.feat[f]),
                            !.features = left]
             ELSE [s EXCEPT !.emp[w] = idle(s.emp[w]), !.features = left]

\* _process_tick for tick (d, h)
RunTick(c, st, d, h) ==
    LET worked == RunAssign(c, RunReset(st), Len(st.employees))
        recorded == [worked EXCEPT !.history =
                        Append(@, [tick |-> [day |-> d, hour |-> h],
                                   features |-> [k \in 1..Len(worked.features) |->
                                       FeatureSnapshot(worked.feat[worked.features[k]])],
                                   employees |-> [k \in 1..Len(worked.employees) |->
                                       EmployeeSnapshot(worked.emp[worked.employees[k]])]])]
    IN  [recorded EXCEPT
            !.feat = [n \in DOMAIN recorded.feat |->
                        IF n \in Range(recorded.features)
                        THEN try_advance(recorded.feat[n]).feature
                        ELSE recorded.feat[n]],
            !.features = SelectSeq(recorded.features,
                                   LAMBDA n : ~try_advance(recorded.feat[n]).result)]

\* run(max_days) after its first k ticks, stopping where the list is empty
RECURSIVE RunTicks(_, _, _)
RunTicks(c, md, k) ==
    IF k = 0 THEN RunStart(c)
    ELSE LET st == RunTicks(c, md, k - 1)
         IN  IF k > md * HOURS_PER_DAY \/ (k > 1 /\ st.features = <<>>) THEN st
             ELSE RunTick(c, st, ((k - 1) \div HOURS_PER_DAY) + 1,
                          ((k - 1) % HOURS_PER_DAY) + 1)

\* run(max_days) to its return
RunToEnd(c, md) == RunTicks(c, md, md * HOURS_PER_DAY)

\* the steps of run: its single thread always takes its next step
RunStep ==
    \/ ResetTick
    \/ AssignAndWork
    \/ AssignAndIdle
    \/ Record
    \/ AdvanceFeatures
    \/ FinishEarly
    \/ NextTick
    \/ MaxDaysReached

\* the configurations behaviours are followed to their end from
LiveConfigs ==
    {c \in Configs : Len(c.fspecs) <= 1 \/ c.team = <<"An1", "Dev1", "QA1", "Dev2">>}

FairInit == Init /\ cfg \in LiveConfigs

FairSpec == FairInit /\ [][Next]_vars /\ WF_vars(RunStep)

----------------------------------------------------------------------------
(* The Feature and Employee methods called directly, in any order, on one      *)
(* feature (as the unit tests do)                                             *)

ApiTemplates ==
    Templates
    \cup { [caps |-> (DEVELOPMENT :> 2000) @@ (CODE_REVIEW :> 0) @@ (TESTING :> 1000),
            initial_stage |-> DEVELOPMENT],
           [caps |-> (ANALYTICS :> 1000) @@ (TESTING :> 1000),
            initial_stage |-> ANALYTICS],
           [caps |-> (DEVELOPMENT :> 3330), initial_stage |-> DEVELOPMENT],
           [caps |-> (DEVELOPMENT :> 1000), initial_stage |-> CODE_REVIEW],
           [caps |-> (TESTING :> 1000), initial_stage |-> DEVELOPMENT] }

\* the review_coefficient overrides passed to Feature(...), in thousandths
ApiCoefficients == {0, 500}

\* Feature(...) with a review_coefficient argument
ApiOverrides ==
    { [name |-> "F1", caps |-> t.caps, initial_stage |-> DEVELOPMENT,
       review_coefficient |-> c, assignees |-> <<>>] :
         t \in { [caps |-> (DEVELOPMENT :> 1000)],
                 [caps |-> (DEVELOPMENT :> 2000) @@ (CODE_REVIEW :> 300)] },
         c \in ApiCoefficients }

ApiConfigs ==
    [team : {<<>>}, prod : {[w \in Pool |-> 8000]},
     fspecs : { <<a>> : a \in FeatureArgs("F1", ApiTemplates, {<<>>}) \cup ApiOverrides },
     validate : {FALSE}, strategy : {"simple"}]

\* the efforts passed to Feature.work directly
ApiEfforts == {2000}

\* the workers whose work method is called
ApiWorkers == {"Dev1", "Dev2", "QA1"}

ApiInit ==
    /\ cfg \in ApiConfigs
    /\ feat = <<>>
    /\ emp = BuildEmployees(cfg)
    /\ employees = <<>>
    /\ features = <<>>
    /\ history = <<>>
    /\ pc = "unbuilt"
    /\ max_days = 0
    /\ day = 0
    /\ hour = 0
    /\ idx = 0
    /\ outcome = NoError
    /\ ret = NoReturn
    /\ registered = {}

ValueError(feature_name) ==
    [error |-> "ValueError", check |-> "initial_stage", feature_name |-> feature_name,
     assigned_developers |-> {}, available_developers |-> <<>>]

\* Feature(name, stage_capacities, initial_stage, review_coefficient) returns
ApiConstruct ==
    /\ pc = "unbuilt"
    /\ LET a == cfg.fspecs[1]
       IN  InitialStageValid(a.caps, a.initial_stage, a.review_coefficient)
    /\ feat' = BuildFeatures(cfg)
    /\ pc' = "api"
    /\ UNCHANGED <<emp, employees, features, history, cfg, max_days, day, hour, idx,
                   outcome, ret, registered>>

\* Feature(...) raises ValueError: no feature exists
ApiConstructFails ==
    /\ pc = "unbuilt"
    /\ LET a == cfg.fspecs[1]
       IN  /\ ~InitialStageValid(a.caps, a.initial_stage, a.review_coefficient)
           /\ outcome' = ValueError(a.name)
    /\ pc' = "value_error"
    /\ UNCHANGED <<feat, emp, employees, features, history, cfg, max_days, day, hour,
                   idx, ret, registered>>

ApiFrame == UNCHANGED <<employees, features, history, cfg, pc, max_days, day, hour,
                        idx, outcome>>

\* feature.assign(employee)
ApiAssign(n, w) ==
    /\ pc = "api"
    /\ feat' = [feat EXCEPT ![n] = assign(feat[n], w)]
    /\ ret' = NoReturn
    /\ UNCHANGED <<emp, registered>>
    /\ ApiFrame

\* employee.work(feature)
ApiEmployeeWork(w, n) ==
    /\ pc = "api"
    /\ feat' = [feat EXCEPT ![n] = Employee_work_feature(emp[w], feat[n])]
    /\ emp' = [emp EXCEPT ![w] = Employee_work_self(emp[w], feat[n])]
    /\ registered' = IF feat[n].current_stage = DEVELOPMENT
                     THEN registered \cup {<<n, w>>}
                     ELSE registered
    /\ ret' = NoReturn
    /\ ApiFrame

\* feature.work(effort)
ApiFeatureWork(n, effort) ==
    /\ pc = "api"
    /\ feat' = [feat EXCEPT ![n] = Feature_work(feat[n], effort)]
    /\ ret' = NoReturn
    /\ UNCHANGED <<emp, registered>>
    /\ ApiFrame

\* feature.try_advance()
ApiTryAdvance(n) ==
    /\ pc = "api"
    /\ feat' = [feat EXCEPT ![n] = try_advance(feat[n]).feature]
    /\ ret' = [op |-> "try_advance", feature |-> n,
               result |-> try_advance(feat[n]).result, before |-> feat[n]]
    /\ UNCHANGED <<emp, registered>>
    /\ ApiFrame

ApiNext ==
    \/ ApiConstruct
    \/ ApiConstructFails
    \/ \E n \in DOMAIN feat, w \in Pool : ApiAssign(n, w)
    \/ \E n \in DOMAIN feat, w \in ApiWorkers : ApiEmployeeWork(w, n)
    \/ \E n \in DOMAIN feat, effort \in ApiEfforts : ApiFeatureWork(n, effort)
    \/ \E n \in DOMAIN feat : ApiTryAdvance(n)

FeatureSpec == ApiInit /\ [][ApiNext]_vars

----------------------------------------------------------------------------
(* Properties of the Feature methods, checked under FeatureSpec *)

\* the eligibility relation as the specification words it
Eligible(f, e) ==
    /\ \E s \in DOMAIN f.remaining : f.remaining[s] > 0
    /\ f.current_stage \in effective_stages(e.role)
    /\ \/ f.current_stage = CODE_REVIEW /\ e.name \notin f.contributors
       \/ f.current_stage # CODE_REVIEW /\ e.name \in Range(f.assignees)

\* C1: can_be_worked_by(F, W) is true exactly when F is not done, W's role
\* includes F's current stage, and either the stage is Review and W is no
\* contributor, or the stage is not Review and W is an assignee.
C1_EligibilityRelation ==
    \A n \in DOMAIN feat, w \in Pool :
        can_be_worked_by(feat[n], emp[w]) <=> Eligible(feat[n], emp[w])

\* an unassigned developer may review while a contributor may not
C1_Witness ==
    /\ pc = "api"
    /\ feat["F1"].current_stage = CODE_REVIEW
    /\ "Dev1" \in feat["F1"].contributors
    /\ ~can_be_worked_by(feat["F1"], emp["Dev1"])
    /\ "Dev2" \notin Range(feat["F1"].assignees)
    /\ can_be_worked_by(feat["F1"], emp["Dev2"])

\* C2: a worker once registered as a Development contributor of a feature is
\* never eligible for it while its current stage is Review, also after
\* being added to the assignees.
C2_ContributorNeverReviews ==
    \A p \in registered :
        feat[p[1]].current_stage = CODE_REVIEW
            => ~can_be_worked_by(feat[p[1]], emp[p[2]])

\* a registered developer, assigned, facing an unfinished Review stage
C2_Witness ==
    /\ <<"F1", "Dev1">> \in registered
    /\ feat["F1"].current_stage = CODE_REVIEW
    /\ feat["F1"].remaining[CODE_REVIEW] > 0
    /\ "Dev1" \in Range(feat["F1"].assignees)

\* C9: the index of current_stage in STAGE_ORDER never decreases.
C9_StageNeverMovesBack ==
    [][\A n \in DOMAIN feat :
          StageIndex(feat'[n].current_stage) >= StageIndex(feat[n].current_stage)]_vars

\* a try_advance call that moved the stage
C9_Witness ==
    /\ ret.op = "try_advance"
    /\ feat[ret.feature].current_stage # ret.before.current_stage

\* the first stage after stage s, in the fixed order, that is a key of f.remaining
IsNextPresent(f, s, t) ==
    /\ t \in DOMAIN f.remaining
    /\ StageIndex(t) > StageIndex(s)
    /\ \A u \in DOMAIN f.remaining : StageIndex(u) > StageIndex(s)
                                        => StageIndex(t) <= StageIndex(u)

\* C10: try_advance changes nothing and returns false while the current stage
\* has effort left; otherwise it moves to the first later stage present in
\* remaining and returns false; it returns true, the stage unchanged, exactly
\* when the current stage is finished and no later stage is present.
C10_TryAdvance ==
    ret.op = "try_advance" =>
        LET b == ret.before
            a == feat[ret.feature]
            later == {t \in DOMAIN b.remaining :
                        StageIndex(t) > StageIndex(b.current_stage)}
        IN  /\ b.remaining[b.current_stage] > 0 => a = b /\ ~ret.result
            /\ b.remaining[b.current_stage] <= 0 /\ later # {} =>
                  /\ ~ret.result
                  /\ IsNextPresent(b, b.current_stage, a.current_stage)
                  /\ a = [b EXCEPT !.current_stage = a.current_stage]
            /\ b.remaining[b.current_stage] <= 0 /\ later = {} => a = b /\ ret.result
            /\ ret.result <=> (b.remaining[b.current_stage] <= 0 /\ later = {})

\* a try_advance call that skipped a stage absent from remaining
C10_Witness ==
    /\ ret.op = "try_advance"
    /\ StageIndex(feat[ret.feature].current_stage)
          > StageIndex(ret.before.current_stage) + 1

----------------------------------------------------------------------------
(* Properties of validation and of the tick loop, checked under Spec *)

Constructed == pc \notin {"new", "unbuilt", "value_error", "api"}

Running == pc \in {"reset", "assign", "record", "advance", "check"}

TeamDevelopers == {w \in Range(cfg.team) : RoleOf(w) = "Developer"}

ListedFeatures == Range(FeatureNames(cfg))

\* the checks that precede review coverage all pass
BasicChecksPass ==
    /\ cfg.fspecs # <<>>
    /\ cfg.team # <<>>
    /\ \A n \in ListedFeatures : feat[n].assignees # <<>>
    /\ \A w \in Range(cfg.team) : emp[w].productivity_per_day > 0

\* a feature with Review effort to which every developer of the team is assigned
Uncovered(n) ==
    /\ feat[n].stage_capacities[CODE_REVIEW] > 0
    /\ TeamDevelopers # {}
    /\ TeamDevelopers \subseteq Range(feat[n].assignees)

ValidateWith(w) == validate(FeatureNames(cfg), Append(cfg.team, w), feat, emp)

\* C3 as stated: when every developer of the team is assigned to a feature
\* with Review effort, validation fails with NoReviewerAvailableError, and one
\* more developer who is not assigned to that feature makes it pass.
C3_AsStated ==
    (Constructed /\ cfg.validate /\ BasicChecksPass) =>
        \A n \in {m \in ListedFeatures : CODE_REVIEW \in DOMAIN feat[m].stage_capacities} :
            Uncovered(n) =>
                /\ pc = "error"
                /\ outcome.error = "NoReviewerAvailableError"
                /\ \A w \in Pool \ Range(cfg.team) :
                      (RoleOf(w) = "Developer" /\ w \notin Range(feat[n].assignees)
                         /\ emp[w].productivity_per_day > 0)
                          => ValidateWith(w) = NoError

\* C3 (amended): when the earlier checks pass and every developer of the team
\* is assigned to a feature with Review effort, validation fails with
\* NoReviewerAvailableError; one more developer of positive productivity who
\* is assigned to no feature that has Review effort makes it pass.
C3_CoverageValidation ==
    (Constructed /\ cfg.validate /\ BasicChecksPass) =>
        \A n \in {m \in ListedFeatures : CODE_REVIEW \in DOMAIN feat[m].stage_capacities} :
            Uncovered(n) =>
                /\ pc = "error"
                /\ outcome.error = "NoReviewerAvailableError"
                /\ \A w \in Pool \ Range(cfg.team) :
                      (/\ RoleOf(w) = "Developer"
                       /\ emp[w].productivity_per_day > 0
                       /\ \A m \in ListedFeatures :
                             (/\ CODE_REVIEW \in DOMAIN feat[m].stage_capacities
                              /\ feat[m].stage_capacities[CODE_REVIEW] > 0)
                                => w \notin Range(feat[m].assignees))
                          => ValidateWith(w) = NoError

\* validation has failed for lack of a reviewer and a further developer cures it
C3_Witness ==
    /\ pc = "error"
    /\ outcome.error = "NoReviewerAvailableError"
    /\ BasicChecksPass
    /\ Uncovered(outcome.feature_name)
    /\ "Dev2" \notin Range(cfg.team)
    /\ ValidateWith("Dev2") = NoError

\* one of the four basic faults of a configuration
BasicFault ==
    \/ cfg.fspecs = <<>>
    \/ cfg.team = <<>>
    \/ \E n \in ListedFeatures : feat[n].assignees = <<>>
    \/ \E w \in Range(cfg.team) : emp[w].productivity_per_day <= 0

\* C4: with validation enabled, an empty feature list, an empty worker list,
\* a feature without assignee or a worker of productivity <= 0 makes
\* construction fail with PlanningError; no tick is processed and the history
\* stays empty.
C4_ConstructionFails ==
    (Constructed /\ cfg.validate /\ BasicFault) =>
        /\ pc = "error"
        /\ outcome.error = "PlanningError"
        /\ history = <<>>
        /\ day = 0
        /\ hour = 0

\* construction has failed on a worker of productivity zero
C4_Witness ==
    /\ pc = "error"
    /\ outcome.error = "PlanningError"
    /\ cfg.fspecs # <<>>
    /\ \A n \in ListedFeatures : feat[n].assignees # <<>>
    /\ \E w \in Range(cfg.team) : emp[w].productivity_per_day <= 0

\* C5: a run records at most max_days x HOURS_PER_DAY ticks, and exactly that
\* many only if the active feature list was never empty before the bound.
C5_TickBound ==
    (Running \/ pc = "done") =>
        /\ Len(history) <= max_days * HOURS_PER_DAY
        /\ (pc = "done" /\ Len(history) = max_days * HOURS_PER_DAY) =>
              \A k \in 1..Len(history) : history[k].features # <<>>

\* a run that used every tick of its bound
C5_Witness ==
    /\ pc = "done"
    /\ max_days >= 1
    /\ Len(history) = max_days * HOURS_PER_DAY

\* C6: once the active list is found empty after a tick, run stops: no further
\* tick is processed or recorded.
C6_StopsWhenEmpty ==
    /\ [](\A k \in 2..Len(history) : history[k].features # <<>>)
    /\ []((pc \in {"reset", "assign", "record"} /\ history # <<>>) => features # <<>>)
    /\ [][(pc = "check" /\ features = <<>>) =>
            (pc' = "done" /\ history' = history /\ outcome'.check = "completed_early")]_vars

\* a run that stopped early with days left
C6_Witness ==
    /\ pc = "done"
    /\ outcome.check = "completed_early"
    /\ features = <<>>
    /\ Len(history) < (max_days - 1) * HOURS_PER_DAY

C7_Outcomes ==
    pc = "done" =>
        \/ /\ outcome.check = "completed_early"
           /\ features = <<>>
           /\ Len(history) >= 1
        \/ /\ outcome.check = "max_days"
           /\ Len(history) = max_days * HOURS_PER_DAY
           /\ max_days >= 1 => features # <<>>
           /\ Range(features) \subseteq ListedFeatures

\* C7: run always terminates, either early with the active list empty or
\* with max days reached after the day loop is exhausted, the unfinished
\* features still in the active list.
C7_Terminates ==
    /\ [](C7_Outcomes)
    /\ (Running ~> pc = "done")

\* a run that ended on the day bound with a feature left
C7_Witness ==
    /\ pc = "done"
    /\ outcome.check = "max_days"
    /\ max_days >= 1
    /\ features # <<>>

\* the scenario of C8
Scenario ==
    /\ cfg.fspecs = <<ScenarioFeature>>
    /\ cfg.team = <<"Dev1", "Dev2">>
    /\ cfg.prod = [w \in Pool |-> 8000]

\* C8: in the scenario Review is added with effort 2.0, Development reaches 0
\* at tick 10 and the stage becomes Review, the unassigned developer finishes
\* Review in 2 ticks, and the feature is removed at tick 12: 12 ticks in all.
C8_Scenario ==
    Scenario =>
        /\ feat["F1"].stage_capacities = (DEVELOPMENT :> 10000) @@ (CODE_REVIEW :> 2000)
        /\ Len(history) <= 12
        /\ \A k \in 1..Len(history) :
              LET f == history[k].features[1]
                  e == history[k].employees
              IN  /\ k <= 10 =>
                        /\ f.current_stage = DEVELOPMENT
                        /\ f.remaining_efforts[DEVELOPMENT] = 10000 - 1000 * k
                        /\ f.remaining_efforts[CODE_REVIEW] = 2000
                        /\ e[1].current_task = "F1" /\ e[2].current_task = "Idle"
                  /\ k > 10 =>
                        /\ f.current_stage = CODE_REVIEW
                        /\ f.remaining_efforts[DEVELOPMENT] = 0
                        /\ f.remaining_efforts[CODE_REVIEW] = 2000 - 1000 * (k - 10)
                        /\ e[1].current_task = "Idle" /\ e[2].current_task = "F1"
        /\ (pc \in {"check", "done"} /\ Len(history) = 12) => features = <<>>
        /\ (pc = "done" /\ max_days * HOURS_PER_DAY >= 12) =>
              /\ Len(history) = 12
              /\ outcome.check = "completed_early"

\* the scenario has run to its end
C8_Witness ==
    /\ Scenario
    /\ pc = "done"
    /\ Len(history) = 12
    /\ features = <<>>

----------------------------------------------------------------------------
(* Properties of Feature.work and of construction, checked under FeatureSpec *)

\* the efforts Feature.work is asked to apply: the direct calls and one hour
\* of every worker
WorkEfforts == ApiEfforts \cup {productivity_per_hour(emp[w]) : w \in Pool}

\* C11: remaining[stage] >= 0 for every stage of every feature in every state,
\* and work with an effort of at least the current stage's remaining effort
\* leaves that remaining effort exactly 0.
C11_RemainingNeverNegative ==
    \A n \in DOMAIN feat :
        /\ \A s \in DOMAIN feat[n].remaining : feat[n].remaining[s] >= 0
        /\ \A effort \in WorkEfforts :
              effort >= feat[n].remaining[feat[n].current_stage] =>
                  Feature_work(feat[n], effort).remaining[feat[n].current_stage] = 0

\* a Review stage of 0.4 that an effort of 1.0 or 2.0 has brought to 0
C11_Witness ==
    /\ pc = "api"
    /\ feat["F1"].current_stage = CODE_REVIEW
    /\ feat["F1"].stage_capacities[CODE_REVIEW] = 400
    /\ feat["F1"].remaining[CODE_REVIEW] = 0

\* r (thousandths) is x (millionths) rounded to two decimals
IsRoundedTo2(r, x) ==
    /\ r % 10 = 0
    /\ 2 * (IF 1000 * r >= x THEN 1000 * r - x ELSE x - 1000 * r) <= 10000

\* the arguments the feature was constructed from
FeatureArg == cfg.fspecs[1]

\* C12: at construction, Development supplied and Review not: Review is added
\* with round(development effort x coefficient, 2), which is 0 for Development
\* effort 0; Review supplied: its value is kept; Development absent: no Review
\* entry is created.  Every supplied entry is kept as it is.
C12_ReviewDerivation ==
    pc = "api" =>
        LET supplied == FeatureArg.caps
            f == feat[FeatureArg.name]
        IN  /\ \A s \in DOMAIN supplied :
                  s \in DOMAIN f.stage_capacities /\ f.stage_capacities[s] = supplied[s]
            /\ (DEVELOPMENT \in DOMAIN supplied /\ CODE_REVIEW \notin DOMAIN supplied) =>
                  /\ DOMAIN f.stage_capacities = DOMAIN supplied \cup {CODE_REVIEW}
                  /\ IsRoundedTo2(f.stage_capacities[CODE_REVIEW],
                                  supplied[DEVELOPMENT] * f.review_coefficient)
                  /\ supplied[DEVELOPMENT] = 0 => f.stage_capacities[CODE_REVIEW] = 0
            /\ CODE_REVIEW \in DOMAIN supplied =>
                  DOMAIN f.stage_capacities = DOMAIN supplied
            /\ DEVELOPMENT \notin DOMAIN supplied =>
                  DOMAIN f.stage_capacities = DOMAIN supplied

\* Development 3.33 with the default coefficient has given Review 0.67
C12_Witness ==
    /\ pc = "api"
    /\ FeatureArg.caps = (DEVELOPMENT :> 3330)
    /\ feat["F1"].stage_capacities = (DEVELOPMENT :> 3330) @@ (CODE_REVIEW :> 670)
    /\ feat["F1"].remaining[CODE_REVIEW] = 670

\* the coefficient the caller asked for: the override when one is supplied
RequestedCoefficient(a) ==
    IF a.review_coefficient = NoCoefficient THEN REVIEW_COEFFICIENT
    ELSE a.review_coefficient

\* C13: the derived Review effort is computed from the supplied override, for
\* every override value including 0; the default coefficient is used only when
\* no override is supplied.
C13_OverrideUsed ==
    pc = "api" =>
        LET supplied == FeatureArg.caps
            f == feat[FeatureArg.name]
        IN  (DEVELOPMENT \in DOMAIN supplied /\ CODE_REVIEW \notin DOMAIN supplied) =>
                /\ f.review_coefficient = RequestedCoefficient(FeatureArg)
                /\ IsRoundedTo2(f.stage_capacities[CODE_REVIEW],
                                supplied[DEVELOPMENT] * RequestedCoefficient(FeatureArg))

----------------------------------------------------------------------------
(* Properties of one tick, checked under Spec *)

\* the number of the tick being processed, counted from 1
TickNo == (day - 1) * HOURS_PER_DAY + hour

LastSnapshot == history[Len(history)]

\* the feature of a snapshot that has the given name
SnapshotOf(snap, n) ==
    snap.features[CHOOSE i \in 1..Len(snap.features) : snap.features[i].name = n]

\* the positions of a tick, in the order the tick goes through them
TickOrder ==
    /\ pc = "reset" => pc' \in {"assign", "record"}
    /\ pc = "assign" => pc' \in {"assign", "record"} /\ idx' = idx + 1
    /\ pc = "record" =>
          /\ pc' = "advance"
          /\ Len(history') = Len(history) + 1
          /\ feat' = feat /\ emp' = emp /\ features' = features
    /\ pc = "advance" =>
          /\ pc' = "check"
          /\ history' = history /\ emp' = emp
          /\ \A i \in 1..Len(features') :
                \E j \in i..Len(features) : features'[i] = features[j]
    /\ pc = "check" =>
          /\ pc' \in {"reset", "done"}
          /\ feat' = feat /\ features' = features /\ history' = history
    /\ pc' = "reset" => pc \in {"ready", "check"}
    /\ pc' = "advance" => pc = "record"
    /\ feat' # feat => pc \in {"assign", "advance"}

\* where a tick stands, read off the state
TickState ==
    /\ pc = "assign" =>
          \A j \in 1..Len(employees) :
              IF j < idx
              THEN emp[employees[j]].current_task_name # "None"
              ELSE /\ ~emp[employees[j]].worked_this_tick
                   /\ emp[employees[j]].current_task_name = "None"
    /\ pc \in {"reset", "assign", "record"} => Len(history) = TickNo - 1
    /\ pc \in {"advance", "check"} => Len(history) = TickNo
    /\ \A k \in 1..Len(history) :
          /\ (history[k].tick.day - 1) * HOURS_PER_DAY + history[k].tick.hour = k
          /\ Len(history[k].employees) = Len(employees)
          /\ \A j \in 1..Len(employees) :
                /\ history[k].employees[j].name = employees[j]
                /\ history[k].employees[j].has_worked =>
                      SnapshotOf(history[k], history[k].employees[j].current_task).current_stage
                          \in effective_stages(RoleOf(employees[j]))
    /\ pc = "advance" =>
          /\ Len(LastSnapshot.features) = Len(features)
          /\ \A i \in 1..Len(features) :
                /\ LastSnapshot.features[i].name = features[i]
                /\ LastSnapshot.features[i].current_stage = feat[features[i]].current_stage
                /\ LastSnapshot.features[i].remaining_efforts = feat[features[i]].remaining
          /\ \A j \in 1..Len(employees) :
                LastSnapshot.employees[j] = EmployeeSnapshot(emp[employees[j]])

\* C14: a tick resets every worker, then lets each worker in the supplied order
\* work or idle, then records exactly one snapshot, then calls try_advance on
\* the active features and removes the completed ones; the snapshot shows each
\* feature in the stage it was worked in, before advancement, and the next tick
\* begins only after advancement.
C14_TickOrder == [](TickState) /\ [][TickOrder]_vars

\* a snapshot has been recorded of a feature whose current stage is finished
\* and which try_advance is about to move on
C14_Witness ==
    /\ pc = "advance"
    /\ \E i \in 1..Len(features) :
          /\ LastSnapshot.features[i].remaining_efforts[LastSnapshot.features[i].current_stage] = 0
          /\ try_advance(feat[features[i]]).feature.current_stage
                # LastSnapshot.features[i].current_stage
    /\ \E j \in 1..Len(employees) : LastSnapshot.employees[j].has_worked

----------------------------------------------------------------------------
(* Properties of the assignment strategies, checked under Spec *)

\* the positions of the active list whose feature the worker may work on
EligiblePositions(w) ==
    {k \in 1..Len(features) : can_be_worked_by(feat[features[k]], emp[w])}

\* C15: SimpleAssignmentStrategy.choose_feature returns the first feature in
\* list order that the worker can work on, and none exactly when no feature of
\* the list is eligible for the worker.
C15_SimpleFirstMatch ==
    Running =>
        \A w \in Range(employees) :
            LET chosen == Simple_choose_feature(emp[w], features, feat)
            IN  /\ chosen = NoFeature <=> EligiblePositions(w) = {}
                /\ chosen # NoFeature =>
                      \E k \in EligiblePositions(w) :
                          /\ features[k] = chosen
                          /\ \A j \in EligiblePositions(w) : k <= j

\* a worker about to be assigned: the first feature is not eligible for it,
\* the second is and is chosen, and another worker has no eligible feature
C15_Witness ==
    /\ pc = "assign"
    /\ cfg.strategy = "simple"
    /\ Len(features) = 2
    /\ EligiblePositions(employees[idx]) = {2}
    /\ Simple_choose_feature(emp[employees[idx]], features, feat) = features[2]
    /\ \E w \in Range(employees) : EligiblePositions(w) = {}

\* the remaining effort of a feature summed over its stages
TotalLeft(n) ==
    LET r == feat[n].remaining
        of(s) == IF s \in DOMAIN r THEN r[s] ELSE 0
    IN  of(ANALYTICS) + of(DEVELOPMENT) + of(CODE_REVIEW) + of(TESTING)

----------------------------------------------------------------------------
(* Properties of the contributors, checked under FeatureSpec *)

\* the workers that called work on feature n while its stage was Development
WorkedInDevelopment(n) == {w \in Pool : <<n, w>> \in registered}

\* C17: a worker's name is in contributors exactly if the worker has executed
\* work on the feature while its current stage was Development; work at
\* another stage adds nothing, a second registration changes nothing, and
\* contributors never loses a name.
C17_Contributors ==
    /\ [](\A n \in DOMAIN feat : feat[n].contributors = WorkedInDevelopment(n))
    /\ [][\A n \in DOMAIN feat :
            /\ feat[n].contributors \subseteq feat'[n].contributors
            /\ feat[n].current_stage # DEVELOPMENT =>
                  feat'[n].contributors = feat[n].contributors
            /\ \A w \in Pool :
                  (w \in feat[n].contributors /\ emp'[w] # emp[w]) =>
                      feat'[n].contributors = feat[n].contributors]_vars

\* Dev1 worked in Development, Dev2 and QA1 worked at later stages only, and
\* Dev1 alone is a contributor
C17_Witness ==
    /\ pc = "api"
    /\ feat["F1"].current_stage = TESTING
    /\ feat["F1"].remaining[TESTING] = 0
    /\ emp["QA1"].worked_this_tick
    /\ emp["Dev2"].worked_this_tick
    /\ feat["F1"].contributors = {"Dev1"}
    /\ feat["F1"].stage_capacities[DEVELOPMENT] = 2000

----------------------------------------------------------------------------
(* Properties of the recorded snapshots, checked under Spec *)

SnapshotNames(snap) == {snap.features[i].name : i \in 1..Len(snap.features)}

\* C18: in every recorded snapshot each worker either has worked, its task the
\* name of the feature it worked on in that tick, or has not worked, its task
\* "Idle"; nothing of an earlier tick shows in a later snapshot.
C18_SnapshotWorkerStates ==
    \A k \in 1..Len(history) :
        \A j \in 1..Len(history[k].employees) :
            LET e == history[k].employees[j]
            IN  \/ /\ e.has_worked
                   /\ e.current_task \in SnapshotNames(history[k])
                   /\ SnapshotOf(history[k], e.current_task).current_stage
                         \in effective_stages(RoleOf(e.name))
                \/ /\ ~e.has_worked
                   /\ e.current_task = "Idle"

\* a worker that worked in one tick is idle in the next
C18_Witness ==
    \E k \in 1..(Len(history) - 1) :
        \E j \in 1..Len(history[k].employees) :
            /\ history[k].employees[j].has_worked
            /\ history[k].employees[j].current_task = "F1"
            /\ ~history[k + 1].employees[j].has_worked
            /\ history[k + 1].employees[j].current_task = "Idle"
            /\ "F1" \in SnapshotNames(history[k + 1])

\* the remaining efforts of feature n before tick k
RemainingBefore(k, n) ==
    IF k = 1 THEN feat[n].stage_capacities
    ELSE SnapshotOf(history[k - 1], n).remaining_efforts

\* the positions of the workers recorded as having worked on feature n in tick k
WorkersOn(k, n) ==
    {j \in 1..Len(history[k].employees) :
        /\ history[k].employees[j].has_worked
        /\ history[k].employees[j].current_task = n}

\* the effort of one tick of the workers at the positions J
RECURSIVE EffortOf(_, _, _)
EffortOf(k, J, j) ==
    IF j = 0 THEN 0
    ELSE EffortOf(k, J, j - 1)
         + (IF j \in J
            THEN emp[history[k].employees[j].name].productivity_per_day \div HOURS_PER_DAY
            ELSE 0)

\* tick k changed feature n by one work application of each worker in J, and
\* by nothing else
ChangedBy(k, n, J) ==
    LET f == SnapshotOf(history[k], n)
        before == RemainingBefore(k, n)
    IN  \A s \in DOMAIN before :
            f.remaining_efforts[s] =
                IF s = f.current_stage
                THEN Max(0, RoundToUnit(before[s] - EffortOf(k, J, Len(history[k].employees)),
                                        10))
                ELSE before[s]

\* C19 as stated: within one tick a feature's remaining effort is changed by
\* at most one worker's work application.
C19_AsStated ==
    \A k \in 1..Len(history) :
        \A n \in SnapshotNames(history[k]) :
            \E J \in SUBSET WorkersOn(k, n) : Cardinality(J) <= 1 /\ ChangedBy(k, n, J)

\* C19 (amended): within one tick a feature's remaining effort is changed by
\* one work application of each worker recorded as having worked on it in that
\* tick, at most one per worker, and by nothing else; several workers may work
\* on the same feature in the same tick.
C19_OneApplicationPerWorker ==
    \A k \in 1..Len(history) :
        \A n \in SnapshotNames(history[k]) :
            /\ ChangedBy(k, n, WorkersOn(k, n))
            /\ \A j \in WorkersOn(k, n) :
                  \A m \in SnapshotNames(history[k]) \ {n} : j \notin WorkersOn(k, m)

\* two workers have worked on the same feature in one tick and its Development
\* effort has dropped by the effort of both
C19_Witness ==
    \E k \in 1..Len(history) :
        /\ "F1" \in SnapshotNames(history[k])
        /\ Cardinality(WorkersOn(k, "F1")) = 2
        /\ SnapshotOf(history[k], "F1").current_stage = DEVELOPMENT
        /\ SnapshotOf(history[k], "F1").remaining_efforts[DEVELOPMENT]
              = RemainingBefore(k, "F1")[DEVELOPMENT] - 2000

\* C20: a feature is removed from the active list at the end of the very tick
\* in which all its stages first have zero remaining effort; it is not kept
\* active for a later tick.
C20_RemovedWhenDone ==
    \A k \in 1..Len(history) :
        \A i \in 1..Len(history[k].features) :
            history[k].features[i].is_done =>
                /\ k < Len(history) =>
                      history[k].features[i].name \notin SnapshotNames(history[k + 1])
                /\ (k = Len(history) /\ pc \in {"check", "done"}) =>
                      history[k].features[i].name \notin Range(features)

----------------------------------------------------------------------------
(* Properties of a run, checked under Spec *)

\* the worker the employee loop is at
CurrentWorker == employees[idx]

\* the features a step has changed
ChangedFeatures == {n \in DOMAIN feat : feat'[n] # feat[n]}

\* one round of the employee loop: the worker at idx, and no other, either
\* works on one feature or idles
OneActionOfCurrentWorker ==
    pc = "assign" =>
        /\ \A w \in DOMAIN emp : w # CurrentWorker => emp'[w] = emp[w]
        /\ \/ /\ emp'[CurrentWorker].worked_this_tick
              /\ emp'[CurrentWorker].current_task_name \in Range(features)
              /\ ChangedFeatures \subseteq {emp'[CurrentWorker].current_task_name}
           \/ /\ ~emp'[CurrentWorker].worked_this_tick
              /\ emp'[CurrentWorker].current_task_name = "Idle"
              /\ ChangedFeatures = {}
        /\ idx' = idx + 1

\* every worker of the team has had its round when the tick is recorded, and
\* none has had one before its turn
EveryWorkerActsOnce ==
    /\ pc = "assign" => idx \in 1..Len(employees)
    /\ pc \in {"record", "advance", "check"} =>
          /\ employees # <<>> => idx = Len(employees) + 1
          /\ \A j \in 1..Len(employees) :
                emp[employees[j]].current_task_name # "None"
    /\ \A k \in 1..Len(history) :
          \A j \in 1..Len(history[k].employees) :
              history[k].employees[j].current_task # "None"

\* C21: within a tick each worker applies work to at most one feature and
\* performs exactly one action: work on one feature, or idle.
C21_OneActionPerWorker == [](EveryWorkerActsOnce) /\ [][OneActionOfCurrentWorker]_vars

\* a recorded tick in which one worker worked and another idled
C21_Witness ==
    /\ pc = "advance"
    /\ Len(employees) >= 2
    /\ \E j \in 1..Len(employees) : emp[employees[j]].worked_this_tick
    /\ emp[employees[Len(employees)]].current_task_name = "Idle"

\* C22: for every feature and every stage, remaining[stage] never increases
\* over a run whose workers have positive productivity.
C22_RemainingNeverIncreases ==
    (\A w \in Range(employees) : emp[w].productivity_per_day > 0) =>
        \A k \in 1..Len(history) :
            \A n \in SnapshotNames(history[k]) :
                \A s \in DOMAIN RemainingBefore(k, n) :
                    SnapshotOf(history[k], n).remaining_efforts[s] <= RemainingBefore(k, n)[s]

\* the stages worker w answers can_work_stage with true for
WorkableStages(w) == {s \in FeatureStage : can_work_stage(emp[w], s)}

\* C23: the capability set of a role is fixed for the whole run: a Developer
\* can work exactly Development and Review, a SystemAnalyst exactly Analytics,
\* a QA exactly Testing; can_work_stage is membership in that set and depends
\* on no feature or tick state.
C23_RoleCapabilities ==
    \A w \in Pool :
        /\ emp[w].role = RoleOf(w)
        /\ emp[w].role = "Developer" => WorkableStages(w) = {DEVELOPMENT, CODE_REVIEW}
        /\ emp[w].role = "SystemAnalyst" => WorkableStages(w) = {ANALYTICS}
        /\ emp[w].role = "QA" => WorkableStages(w) = {TESTING}
        /\ \A s \in FeatureStage :
              can_work_stage(emp[w], s)
                  <=> can_work_stage(EmployeeNew(w, RoleOf(w), cfg.prod[w]), s)

\* a run has ended in which an analyst, a developer and a QA worker have each
\* worked
C23_Witness ==
    /\ pc = "done"
    /\ \A w \in {"An1", "Dev1", "QA1"} :
          \E k \in 1..Len(history) :
              \E j \in 1..Len(history[k].employees) :
                  /\ history[k].employees[j].name = w
                  /\ history[k].employees[j].has_worked

----------------------------------------------------------------------------
(* Properties of feature construction and of assign, checked under FeatureSpec *)

\* the keys of the capacity mapping after the automatic Review expansion
ExpandedKeys(a) ==
    DOMAIN a.caps \cup (IF DEVELOPMENT \in DOMAIN a.caps THEN {CODE_REVIEW} ELSE {})

\* C24: constructing a feature whose initial stage is no key of the capacity
\* mapping after the Review expansion fails at once with an error and yields
\* no feature; an initial stage that is a key, an auto-added Review included,
\* is accepted and becomes current_stage as given.
C24_InitialStage ==
    /\ [](/\ pc = "value_error" =>
               /\ FeatureArg.initial_stage \notin ExpandedKeys(FeatureArg)
               /\ outcome.error = "ValueError"
               /\ feat = <<>>
          /\ pc = "api" =>
               /\ FeatureArg.initial_stage \in ExpandedKeys(FeatureArg)
               /\ outcome = NoError
               /\ DOMAIN feat = {FeatureArg.name})
    /\ [][pc = "unbuilt" =>
            IF FeatureArg.initial_stage \in ExpandedKeys(FeatureArg)
            THEN pc' = "api" /\ feat'[FeatureArg.name].current_stage = FeatureArg.initial_stage
            ELSE pc' = "value_error"]_vars

\* a construction with an initial stage that is no key has failed
C24_Witness ==
    /\ pc = "value_error"
    /\ outcome.error = "ValueError"
    /\ FeatureArg.caps = (TESTING :> 1000)
    /\ FeatureArg.initial_stage = DEVELOPMENT

----------------------------------------------------------------------------
(* Properties of validation errors, checked under Spec *)

\* feature n has Review effort and every developer of the team is assigned to it
LacksReviewer(n) ==
    /\ CODE_REVIEW \in DOMAIN feat[n].stage_capacities
    /\ feat[n].stage_capacities[CODE_REVIEW] > 0
    /\ TeamDevelopers \subseteq Range(feat[n].assignees)

\* C25: a failed review-coverage check raises NoReviewerAvailableError, which
\* is a PlanningError, with the name of the failing feature, exactly the names
\* of the Developers assigned to it and the names of all Developers of the
\* team; a failure of another check raises a PlanningError that is no
\* NoReviewerAvailableError.
C25_ErrorPayload ==
    pc = "error" =>
        /\ "PlanningError" \in ErrorClasses(outcome.error)
        /\ BasicFault <=> "NoReviewerAvailableError" \notin ErrorClasses(outcome.error)
        /\ "NoReviewerAvailableError" \in ErrorClasses(outcome.error) =>
              /\ outcome.feature_name \in ListedFeatures
              /\ LacksReviewer(outcome.feature_name)
              /\ \A k \in 1..Len(cfg.fspecs) :
                    LacksReviewer(cfg.fspecs[k].name) =>
                        \E j \in 1..k : cfg.fspecs[j].name = outcome.feature_name
              /\ outcome.assigned_developers =
                    {w \in Range(feat[outcome.feature_name].assignees) :
                        RoleOf(w) = "Developer"}
              /\ Range(outcome.available_developers) = TeamDevelopers
              /\ Len(outcome.available_developers) = Cardinality(TeamDevelopers)

\* the coverage check has failed on a feature that also has assignees who are
\* no developers
C25_Witness ==
    /\ pc = "error"
    /\ outcome.error = "NoReviewerAvailableError"
    /\ Cardinality(Range(feat[outcome.feature_name].assignees)) = 3
    /\ Cardinality(outcome.assigned_developers) = 1
    /\ outcome.available_developers # <<>>

TicksProcessed ==
    IF pc \in {"reset", "assign", "record"} THEN TickNo - 1
    ELSE IF pc \in {"advance", "check"} THEN TickNo
    ELSE Len(history)

\* C27: the history holds exactly one snapshot per processed tick, appended in
\* processing order and never modified or removed; the k-th snapshot has tick
\* (day, hour) with (day - 1) x HOURS_PER_DAY + hour = k.
C27_HistoryAppendOnly ==
    /\ [](/\ Len(history) = TicksProcessed
          /\ \A k \in 1..Len(history) :
                /\ history[k].tick.hour \in 1..HOURS_PER_DAY
                /\ history[k].tick.day >= 1
                /\ (history[k].tick.day - 1) * HOURS_PER_DAY + history[k].tick.hour = k)
    /\ [][\/ history' = history
          \/ /\ Len(history') = Len(history) + 1
             /\ SubSeq(history', 1, Len(history)) = history
             /\ pc = "record"]_vars

\* a history that goes into the second day
C27_Witness ==
    /\ Len(history) = HOURS_PER_DAY + 2
    /\ history[1].tick = [day |-> 1, hour |-> 1]
    /\ history[HOURS_PER_DAY + 2].tick = [day |-> 2, hour |-> 2]

\* C28: Feature.assign is idempotent: assigning a worker that is an assignee
\* already leaves assignees unchanged, so every worker appears at most once in
\* assignees after any sequence of assign calls; assign changes nothing but
\* assignees.
C28_AssignIdempotent ==
    \A n \in DOMAIN feat :
        LET f == feat[n]
        IN  /\ \A i, j \in 1..Len(f.assignees) : f.assignees[i] = f.assignees[j] => i = j
            /\ \A w \in Pool :
                  /\ w \in Range(f.assignees) => assign(f, w) = f
                  /\ w \notin Range(f.assignees) =>
                        assign(f, w).assignees = Append(f.assignees, w)
                  /\ assign(assign(f, w), w) = assign(f, w)
                  /\ assign(f, w) = [f EXCEPT !.assignees = assign(f, w).assignees]

\* every worker has been assigned, Dev2 and QA1 first, after work was done
C28_Witness ==
    /\ pc = "api"
    /\ Len(feat["F1"].assignees) = Cardinality(Pool)
    /\ feat["F1"].assignees[1] = "Dev2"
    /\ feat["F1"].assignees[2] = "QA1"
    /\ feat["F1"].contributors # {}

----------------------------------------------------------------------------
(* Properties of validated runs, checked under Spec *)

\* the team workers that may review feature n now
Reviewers(n) ==
    {w \in Range(employees) :
        /\ CODE_REVIEW \in effective_stages(RoleOf(w))
        /\ w \notin feat[n].contributors
        /\ can_be_worked_by(feat[n], emp[w])}

\* C29: in a run of a configuration that passed validation, whenever an active
\* feature is in Review with effort left, a worker of the team is eligible for
\* it: capable of Review and none of its contributors.
C29_ReviewerExists ==
    (cfg.validate /\ Running) =>
        \A n \in Range(features) :
            (feat[n].current_stage = CODE_REVIEW /\ feat[n].remaining[CODE_REVIEW] > 0)
                => Reviewers(n) # {}

\* a validated run of a team with two developers: the one who contributed to a
\* feature is excluded, and the feature waits in Review for the other
C29_Witness ==
    /\ cfg.validate
    /\ pc = "assign"
    /\ \E n \in Range(features) :
          /\ feat[n].current_stage = CODE_REVIEW
          /\ feat[n].remaining[CODE_REVIEW] > 0
          /\ feat[n].contributors # {}
          /\ Cardinality(Reviewers(n)) = 1
          /\ Cardinality(TeamDevelopers) = 2

\* the simulator's run state as the tick functions take it
RunState ==
    [feat |-> feat, emp |-> emp, employees |-> employees,
     features |-> features, history |-> history]

\* the tick about to start leaves every active feature exactly as it found it;
\* the tick's effect depends on the features and the team only, so every later
\* tick does the same and no day bound lets the run empty the list
TickChangesNothing ==
    /\ pc = "reset"
    /\ features # <<>>
    /\ LET after == RunTick(cfg, RunState, day, hour)
       IN  after.feat = feat /\ after.features = features

\* C30: every configuration that passes validation is simulatable to
\* completion: some day bound lets run end with the active feature set empty,
\* so no validated run leaves a feature permanently without progress.  Stated
\* over finite runs: a validated run never comes to a tick that changes nothing
\* while features are still active.
C30_ValidatedRunsComplete == cfg.validate => ~TickChangesNothing

----------------------------------------------------------------------------
(* Properties of removal, eligibility and advisories, checked under Spec *)

\* the features the simulator has removed from its active list
RemovedFeatures ==
    IF Constructed /\ pc # "error" THEN ListedFeatures \ Range(features) ELSE {}

\* C31: whenever try_advance reports full completion and the simulator removes
\* the feature from the active list, every stage of that feature has zero
\* remaining effort (is_done holds), whatever the feature's initial stage.
C31_RemovedOnlyWhenDone == \A n \in RemovedFeatures : is_done(feat[n])

\* worker w is recorded in this step as having worked on feature n
StartsWorkOn(w, n) ==
    /\ pc = "assign"
    /\ ~emp[w].worked_this_tick
    /\ emp'[w].worked_this_tick
    /\ emp'[w].current_task_name = n

\* C32: in a run, work is applied to a feature only while its current stage has
\* remaining effort above zero at the moment of application: no worker is
\* assigned to, or recorded as having worked on, a stage already finished.
C32_WorkOnlyOnUnfinishedStage ==
    [][\A w \in Range(employees), n \in Range(features) :
          StartsWorkOn(w, n) => feat[n].remaining[feat[n].current_stage] > 0]_vars

\* the condition under which a check of validate fails, looked at on its own
CheckFails(check) ==
    CASE check = "no_features" -> cfg.fspecs = <<>>
      [] check = "no_employees" -> cfg.team = <<>>
      [] check = "no_assignees" -> \E n \in ListedFeatures : feat[n].assignees = <<>>
      [] check = "productivity" ->
            \E w \in Range(cfg.team) : emp[w].productivity_per_day <= 0
      [] check = "review_coverage" ->
            \E n \in ListedFeatures :
                /\ CODE_REVIEW \in DOMAIN feat[n].stage_capacities
                /\ feat[n].stage_capacities[CODE_REVIEW] > 0
                /\ \A w \in TeamDevelopers : w \in Range(feat[n].assignees)

\* validation ends with the error of the first failing check of the order
\* given, and passes only if no check of the order fails
FailsFirstIn(order) ==
    (pc # "new" /\ cfg.validate) =>
        LET failing == {k \in 1..Len(order) : CheckFails(order[k])}
        IN  IF failing = {} THEN pc # "error"
            ELSE /\ pc = "error"
                 /\ outcome.check = order[Min(failing)]

\* C33 as stated: the checks are evaluated in the order feature list non-empty,
\* worker list non-empty, every feature has an assignee, every worker has
\* productivity > 0, review coverage, and the error is that of the first
\* failing check in this order.
C33_AsStated ==
    FailsFirstIn(<<"no_features", "no_employees", "no_assignees", "productivity",
                   "review_coverage">>)

\* C33 (amended): the checks are evaluated in the order feature list non-empty,
\* every feature has an assignee, worker list non-empty, every worker has
\* productivity > 0, review coverage; the error raised is that of the first
\* failing check in this order, so no later check decides the outcome.
C33_CheckOrder ==
    FailsFirstIn(<<"no_features", "no_assignees", "no_employees", "productivity",
                   "review_coverage">>)

\* a feature without assignee meets an empty team: the assignee check speaks
C33_Witness ==
    /\ pc = "error"
    /\ cfg.team = <<>>
    /\ cfg.fspecs # <<>>
    /\ \E n \in ListedFeatures : feat[n].assignees = <<>>
    /\ outcome.check = "no_assignees"

\* the names a list of warnings of one kind speaks of
Warned(kind, warnings) ==
    {warnings[k].name : k \in {i \in 1..Len(warnings) : warnings[i].kind = kind}}

\* get_validation_warnings called on the simulator's lists as they are now
WarningsNow == get_validation_warnings(features, employees, feat, emp)

\* run has just made its call: nothing has been worked since
JustWarned ==
    /\ ret.op = "get_validation_warnings"
    /\ history = <<>>
    /\ pc \in {"reset", "done"}

\* feature n has a stage that worker w could be eligible for: a stage of w's
\* role among the keys of remaining, w being assigned, or for Review, w being
\* none of the contributors
ReachableWork(w, n) ==
    \E s \in DOMAIN feat[n].remaining :
        /\ s \in effective_stages(RoleOf(w))
        /\ IF s = CODE_REVIEW THEN w \notin feat[n].contributors
           ELSE w \in Range(feat[n].assignees)

\* the Development-capable workers feature n is staffed with
StaffedDevelopers(n) == {w \in Range(feat[n].assignees) : RoleOf(w) = "Developer"}

\* C34 as stated: a no-eligible-work warning for exactly the workers with no
\* reachable work across all features, a single-developer warning for exactly
\* the features staffed by only one Development-capable worker.
C34_AsStated ==
    JustWarned =>
        /\ Warned("no_eligible_work", ret.warnings)
              = {w \in Range(employees) : \A n \in Range(features) : ~ReachableWork(w, n)}
        /\ Warned("single_developer", ret.warnings)
              = {n \in Range(features) : Cardinality(StaffedDevelopers(n)) = 1}

\* what the warning loop accepts as work for w in feature n: w is assigned to n,
\* or n has a stage of w's role among the keys of remaining, a Review stage
\* counting only if w is none of n's contributors
CountsAsWork(w, n) ==
    \/ w \in Range(feat[n].assignees)
    \/ \E s \in DOMAIN feat[n].remaining :
          /\ s \in effective_stages(RoleOf(w))
          /\ s = CODE_REVIEW => w \notin feat[n].contributors

WarningsAsComputed(warnings) ==
    /\ Warned("no_eligible_work", warnings)
          = {w \in Range(employees) : \A n \in Range(features) : ~CountsAsWork(w, n)}
    /\ Warned("single_developer", warnings)
          = {n \in Range(features) :
                /\ CODE_REVIEW \in DOMAIN feat[n].stage_capacities
                /\ feat[n].stage_capacities[CODE_REVIEW] > 0
                /\ Cardinality(StaffedDevelopers(n)) = 1}
    /\ Len(warnings) = Cardinality(Warned("no_eligible_work", warnings))
                         + Cardinality(Warned("single_developer", warnings))

\* the call that run makes leaves the simulation as it was and lets run go on
WarningsChangeNothing ==
    pc = "ready" =>
        /\ UNCHANGED <<feat, emp, employees, features, history>>
        /\ pc' \in {"reset", "done"}

\* C34 (amended): get_validation_warnings returns a no-eligible-work warning for
\* exactly those workers who are assigned to no feature and whose role covers
\* no stage present in any feature (a Review stage counting only if the worker
\* is none of that feature's contributors), and a single-developer warning for
\* exactly those features that have Review effort and exactly one Developer
\* among their assignees; it never raises and never blocks or changes the
\* simulation state.
C34_Warnings ==
    /\ [](/\ (Constructed /\ pc # "error") => WarningsAsComputed(WarningsNow)
          /\ JustWarned => ret.warnings = WarningsNow)
    /\ [][WarningsChangeNothing]_vars

\* run has warned about a worker and about a feature with one developer, and
\* has kept silent about a tester whose stage is present in a feature the
\* tester is not assigned to
C34_Witness ==
    /\ JustWarned
    /\ pc = "reset"
    /\ Warned("no_eligible_work", ret.warnings) # {}
    /\ Warned("single_developer", ret.warnings) # {}
    /\ "QA1" \in Range(employees)
    /\ "QA1" \notin Warned("no_eligible_work", ret.warnings)
    /\ \A n \in Range(features) : ~ReachableWork("QA1", n)

\* C35: in any run, every name among a feature's contributors is the name of a
\* Developer of the team who is one of that feature's assignees: a worker who
\* is not assigned to a feature never becomes one of its contributors.
C35_ContributorsAreAssignedDevelopers ==
    \A n \in DOMAIN feat :
        \A name \in feat[n].contributors :
            \E w \in Range(employees) :
                /\ emp[w].name = name
                /\ emp[w].role = "Developer"
                /\ w \in Range(feat[n].assignees)

\* an unassigned developer has worked on the Review of a feature whose assigned
\* developer is its only contributor
C35_Witness ==
    /\ pc = "record"
    /\ \E n \in Range(features) :
          /\ feat[n].current_stage = CODE_REVIEW
          /\ feat[n].contributors = {"Dev1"}
          /\ "Dev2" \notin Range(feat[n].assignees)
          /\ emp["Dev2"].worked_this_tick
          /\ emp["Dev2"].current_task_name = n

\* C36: applying work with effort > 0 to a current stage whose remaining effort
\* is > 0 and on the two-decimal grid leaves that remaining effort strictly
\* smaller than before: a worker with positive productivity always makes
\* progress despite the rounding to two decimals.
C36_PositiveEffortMakesProgress ==
    [][\A w \in Range(employees), n \in Range(features) :
          (/\ StartsWorkOn(w, n)
           /\ productivity_per_hour(emp[w]) > 0
           /\ feat[n].remaining[feat[n].current_stage] > 0
           /\ feat[n].remaining[feat[n].current_stage] % 10 = 0)
              => feat'[n].remaining[feat[n].current_stage]
                    < feat[n].remaining[feat[n].current_stage]]_vars

\* the stage the caller constructed feature n in
InitialStageOf(n) ==
    cfg.fspecs[CHOOSE k \in 1..Len(cfg.fspecs) : cfg.fspecs[k].name = n].initial_stage

\* the present stages of feature n from its initial stage onward
StagesAhead(n) ==
    {s \in DOMAIN feat[n].remaining : StageIndex(s) >= StageIndex(InitialStageOf(n))}

\* the ticks whose snapshot holds feature n
TicksActive(n) == {k \in 1..Len(history) : n \in SnapshotNames(history[k])}

\* every present stage a removed feature had ahead of it, one of effort zero
\* included, was its current stage in the snapshot of some tick
EveryStageTakesATick ==
    \A n \in RemovedFeatures :
        /\ \A s \in StagesAhead(n) :
              \E k \in TicksActive(n) : SnapshotOf(history[k], n).current_stage = s
        /\ Cardinality(TicksActive(n)) >= Cardinality(StagesAhead(n))

\* the one try_advance call of a tick moves a feature to the next present stage
\* at most
OneStagePerTick ==
    pc = "advance" =>
        \A n \in Range(features) :
            \/ feat'[n].current_stage = feat[n].current_stage
            \/ IsNextPresent(feat[n], feat[n].current_stage, feat'[n].current_stage)

SnapshotList(snap) == [i \in 1..Len(snap.features) |-> snap.features[i].name]

\* list a holds elements of list b only, in the order they have in b (the names
\* of b being distinct)
IsSubsequence(a, b) == a = SelectSeq(b, LAMBDA n : n \in Range(a))

\* a feature snapshot taken in the tick the feature completes in: the current
\* stage is finished and no later stage is present
Completing(fsnap) ==
    /\ fsnap.remaining_efforts[fsnap.current_stage] <= 0
    /\ \A s \in DOMAIN fsnap.remaining_efforts :
          StageIndex(s) <= StageIndex(fsnap.current_stage)

\* the active list and the snapshots are sublists of the list supplied; a
\* feature is in the snapshots up to the tick it completes in and in none after
ActiveListShrinks ==
    (Constructed /\ pc # "error") =>
        /\ IsSubsequence(features, FeatureNames(cfg))
        /\ Len(history) > 0 => Range(features) \subseteq SnapshotNames(LastSnapshot)
        /\ \A n \in RemovedFeatures : TicksActive(n) # {}
        /\ \A k \in 1..Len(history) :
              /\ IsSubsequence(SnapshotList(history[k]), FeatureNames(cfg))
              /\ \A i \in 1..Len(history[k].features) :
                    LET fsnap == history[k].features[i]
                    IN  /\ k < Len(history) =>
                              (Completing(fsnap)
                                  <=> fsnap.name \notin SnapshotNames(history[k + 1]))
                        /\ (k = Len(history) /\ pc \in {"check", "done"}) =>
                              (Completing(fsnap) <=> fsnap.name \notin Range(features))
              /\ k > 1 => SnapshotNames(history[k]) \subseteq SnapshotNames(history[k - 1])

\* features leave the list and never come back; a feature that has left is
\* worked by nobody and changes no more; a feature leaves in the tick whose
\* snapshot still holds it
RemovalIsFinal ==
    (Constructed /\ pc # "error") =>
        /\ Range(features') \subseteq Range(features)
        /\ IsSubsequence(features', features)
        /\ \A n \in RemovedFeatures :
              /\ feat'[n] = feat[n]
              /\ \A w \in Range(employees) : ~StartsWorkOn(w, n)
        /\ \A n \in Range(features) \ Range(features') :
              /\ pc = "advance"
              /\ n \in SnapshotNames(LastSnapshot)

\* C38: the active feature list is at all times a subsequence, in the same
\* relative order, of the list supplied at construction: features are only
\* removed, a removed feature never reappears, is never worked again and is
\* absent from the snapshots of all later ticks, while it is still present in
\* the snapshot of the tick in which it completed.
C38_ActiveListIsSubsequence == [](ActiveListShrinks) /\ [][RemovalIsFinal]_vars

\* the first of two features has been removed; the second went on and the
\* later snapshots hold it alone
C38_Witness ==
    /\ Len(cfg.fspecs) = 2
    /\ features = <<"F2">>
    /\ Len(history) >= 2
    /\ SnapshotList(history[1]) = <<"F1", "F2">>
    /\ SnapshotList(LastSnapshot) = <<"F2">>
    /\ \E w \in Range(employees) : emp[w].current_task_name = "F2"

----------------------------------------------------------------------------
(* Frame properties of the Feature methods, checked under FeatureSpec *)

\* C39: Feature.work changes only remaining[current_stage] and try_advance
\* changes only current_stage: neither alters the remaining effort of another
\* stage, the set of stage keys, the original capacities, the assignees or the
\* contributors; current_stage is a key of remaining in every reachable state.
C39_WorkAndAdvanceFrame ==
    \A n \in DOMAIN feat :
        LET f == feat[n]
            advanced == try_advance(f).feature
        IN  /\ f.current_stage \in DOMAIN f.remaining
            /\ DOMAIN f.remaining = DOMAIN f.stage_capacities
            /\ \A effort \in WorkEfforts :
                  LET worked == Feature_work(f, effort)
                  IN  /\ DOMAIN worked.remaining = DOMAIN f.remaining
                      /\ \A s \in DOMAIN f.remaining \ {f.current_stage} :
                            worked.remaining[s] = f.remaining[s]
                      /\ worked = [f EXCEPT !.remaining = worked.remaining]
            /\ advanced = [f EXCEPT !.current_stage = advanced.current_stage]
            /\ advanced.current_stage \in DOMAIN f.remaining
            /\ (ret.op = "try_advance" /\ ret.feature = n) =>
                  f = [ret.before EXCEPT !.current_stage = f.current_stage]

\* a feature with assignees and a contributor, its Development worked down,
\* has been moved to Review by try_advance, Testing still untouched
C39_Witness ==
    /\ pc = "api"
    /\ ret.op = "try_advance"
    /\ ret.before.current_stage = DEVELOPMENT
    /\ feat[ret.feature].current_stage = CODE_REVIEW
    /\ feat[ret.feature].remaining[DEVELOPMENT] = 0
    /\ feat[ret.feature].stage_capacities[DEVELOPMENT] > 0
    /\ TESTING \in DOMAIN feat[ret.feature].remaining
    /\ feat[ret.feature].remaining[TESTING] = feat[ret.feature].stage_capacities[TESTING]
    /\ feat[ret.feature].contributors # {}
    /\ feat[ret.feature].assignees # <<>>

----------------------------------------------------------------------------
(* Frame property of the strategies, checked under Spec *)

\* the feature the strategy returns to the worker whose turn it is
Chosen == choose_feature(emp[CurrentWorker], features, feat)

\* asked again on what the first call left behind, the strategy returns the
\* same feature
SameChoiceTwice ==
    pc = "assign" =>
        choose_feature(emp[CurrentWorker],
                       features_after_choose(emp[CurrentWorker], features, feat), feat)
            = Chosen

\* one round of the employee loop changes what work or idle change, and
\* nothing else: the call of choose_feature has left no trace
ChoiceLeavesNoTrace ==
    pc = "assign" =>
        /\ features' = features
        /\ employees' = employees
        /\ \A w \in DOMAIN emp \ {CurrentWorker} : emp'[w] = emp[w]
        /\ emp'[CurrentWorker] = IF Chosen = NoFeature THEN idle(emp[CurrentWorker])
                                 ELSE Employee_work_self(emp[CurrentWorker], feat[Chosen])
        /\ \A n \in DOMAIN feat :
              feat'[n] = IF n = Chosen THEN Employee_work_feature(emp[CurrentWorker], feat[n])
                         ELSE feat[n]

====
